---- MODULE Spec2Model ----
(***************************************************************************)
(* Capture-session lifecycle of the two loopback addons                    *)
(*   src/native-wasapi-loopback/wasapi_loopback.cc      (backend "wasapi") *)
(*   src/native-coreaudio-loopback/coreaudio_loopback.cc ("coreaudio")     *)
(*                                                                         *)
(* Threads:                                                                *)
(*   control  - the host runtime's main thread.  It runs the exported      *)
(*              functions (StartCapture, StopCapture) and, whenever it is  *)
(*              not inside one of them, its event loop, which invokes the  *)
(*              queued frame callbacks of the thread-safe functions.       *)
(*   capture  - the std::thread spawned by Start.                          *)
(*   backend  - CoreAudio's I/O thread, which runs InputCallback while the *)
(*              audio unit is started.                                     *)
(*                                                                         *)
(* Every thread-safe function is created with                              *)
(*   ThreadSafeFunction::New(env, cb, "PCMCallback", 0, 1)                 *)
(* i.e. maximum queue size 0 (unlimited) and initial thread count 1:       *)
(* BlockingCall appends to the queue and returns; the queued calls run     *)
(* later on the control thread's event loop, in queue order, also after    *)
(* the last Release (release mode drains the queue before closing).        *)
(***************************************************************************)
EXTENDS Integers, Sequences, FiniteSets, TLC

\* Bounds of the model.
MaxStarts == 2      \* start calls made over a run (accepted or rejected)
MaxBuffers == 2     \* buffers the backend hands over during a run
MaxPid == 1         \* target process ids range over 0..MaxPid
MaxFrames == 12     \* buffers of 0..MaxFrames frames (and a few long ones)
QExp == 10          \* sample values are the multiples of 2^-QExp
MaxProcs == 2       \* processes in the list a lookup runs over
MaxDevices == 3     \* output devices of the system (device 1 is BlackHole)
MaxCalls == 3       \* route / restore calls made over a run

VARIABLES
    backend,          \* "wasapi" or "coreaudio": which addon is loaded
    g_capture,        \* the global unique_ptr is non-null
    running_,         \* std::atomic<bool> running_
    targetPid_,       \* targetPid_
    tsfn_,            \* tsfn_: id of the thread-safe function held, 0 = none
    capture_thread_,  \* capture_thread_: id of the joinable thread, 0 = none
    audioUnit_,       \* audioUnit_: id of the unit pointed to, 0 = nullptr
    th,               \* per capture thread: pc, resources held ("com", "enumr",
                      \* "device", "audioClient3", "audioClient1", "pwfx",
                      \* "hEvent", "cap", "stream", "buffer"), outcome
    unit,             \* per audio unit: its state in the backend
    cb,               \* the backend I/O thread's position in InputCallback
    tsfnCount,        \* per thread-safe function: its thread count
    queue,            \* per thread-safe function: the queued frames
    delivered,        \* frames whose callback has run, in order
    captured,         \* frames produced from captured buffers, in order
    nStarts,          \* start calls made so far
    ctl,              \* control thread: "idle" or its position inside Stop
    ret,              \* value returned by the last start call
    stopped,          \* sessions for which a stop call has returned
    crashed,          \* the process has died (std::terminate, or undefined
                      \* behaviour on a disposed audio unit)
    lookup,           \* a call of FindPidForProcess: the process list, the
                      \* name asked for, and the pid returned
    dsp,              \* the processing of one captured buffer: the stream
                      \* format, the frame count, the locals of the block
    router,           \* the system's default output device, the record
                      \* g_originalOutputDevice and the route / restore calls
    listing,          \* a call of EnumerateAudioSessions: the process table
                      \* and the array returned
    gateState         \* the session whose start last set the filter and gate
                      \* state (hpf, env, noiseFloor, gainSmooth) to their
                      \* initial values; 0 when none has

vars == <<backend, g_capture, running_, targetPid_, tsfn_, capture_thread_,
          audioUnit_, th, unit, cb, tsfnCount, queue, delivered, captured,
          nStarts, ctl, ret, stopped, crashed, lookup, dsp, router, listing,
          gateState>>

\* The variables of the computations that do not touch a session, which the
\* session lifecycle leaves alone.
pure == <<lookup, dsp, router, listing>>

Ids == 1..MaxStarts
Pids == 0..MaxPid
Backends == {"wasapi", "coreaudio"}

\* A frame: the session (= id of the start call) that produced it, its
\* position in capture order, the thread that processed and sent it, and the
\* process whose audio the stream it was read from carries (0: the whole mix
\* of the endpoint or device).
Frame(s, n, by, of) == [s |-> s, n |-> n, by |-> by, of |-> of]

\* What a stream opened for target process pid carries.  Both Initialize
\* branches of the WASAPI addon (pid == 0 and pid > 0) make the same call,
\* Initialize(AUDCLNT_SHAREMODE_SHARED, LOOPBACK | EVENTCALLBACK, 0, 0, pwfx,
\* nullptr) on the default render endpoint, and the CoreAudio addon reads the
\* BlackHole device: the pid is not handed to the backend, the stream is the
\* mix of every process.
StreamScope(pid) == 0

\* failed: "no", or the pc of the acquisition step that failed.
NewThread == [pc |-> "unborn", held |-> {}, failed |-> "no"]

Init ==
    /\ backend \in Backends
    /\ g_capture = FALSE
    /\ running_ = FALSE
    /\ targetPid_ = 0
    /\ tsfn_ = 0
    /\ capture_thread_ = 0
    /\ audioUnit_ = 0
    /\ th = [i \in Ids |-> NewThread]
    /\ unit = [i \in Ids |-> "none"]
    /\ cb = "idle"
    /\ tsfnCount = [i \in Ids |-> 0]
    /\ queue = [i \in Ids |-> <<>>]
    /\ delivered = <<>>
    /\ captured = <<>>
    /\ nStarts = 0
    /\ ctl = "idle"
    /\ ret = "none"
    /\ stopped = {}
    /\ crashed = FALSE
    /\ gateState = 0
    /\ lookup = [pc |-> "none"]
    /\ dsp = [pc |-> "none"]
    /\ router = [pc |-> "none"]
    /\ listing = [pc |-> "none"]

\* The state of a process that holds no session.
NoSession ==
    /\ g_capture = FALSE
    /\ running_ = FALSE
    /\ targetPid_ = 0
    /\ tsfn_ = 0
    /\ capture_thread_ = 0
    /\ audioUnit_ = 0
    /\ th = [i \in Ids |-> NewThread]
    /\ unit = [i \in Ids |-> "none"]
    /\ cb = "idle"
    /\ tsfnCount = [i \in Ids |-> 0]
    /\ queue = [i \in Ids |-> <<>>]
    /\ delivered = <<>>
    /\ captured = <<>>
    /\ nStarts = 0
    /\ ctl = "idle"
    /\ ret = "none"
    /\ stopped = {}
    /\ crashed = FALSE
    /\ gateState = 0

----------------------------------------------------------------------------
\* The thread-safe function (N-API), as the addons use it.

\* tsfn.Release(): the thread count drops; at 0 a further Release is refused
\* (napi_invalid_arg) and changes nothing.
TsfnRelease(cnt, id) ==
    IF id \in Ids /\ cnt[id] > 0 THEN [cnt EXCEPT ![id] = cnt[id] - 1] ELSE cnt

\* Faulty variant of BlockingCall: a one-slot queue that drops a call made
\* while another is pending.
BlockingCall_DropsWhenPending(q, id, frame) ==
    IF id \in Ids /\ q[id] = <<>> THEN [q EXCEPT ![id] = <<frame>>] ELSE q

\* tsfn.BlockingCall(...): with an unlimited queue the call is appended and
\* BlockingCall returns at once.
BlockingCall(q, id, frame) ==
    IF id \in Ids THEN [q EXCEPT ![id] = Append(q[id], frame)] ELSE q

\* First pc of a freshly spawned capture thread.
FirstPc == IF backend = "wasapi" THEN "coinit" ELSE "find"

----------------------------------------------------------------------------
\* Process lookup.  A process name is a sequence of characters; the process
\* list is the sequence of the names of the processes EnumerateAllProcesses
\* returns, in its order, and the pid of a process is its position in it
\* (EnumerateAllProcesses returns no pid 0).  GetProcessName yields the empty
\* name for a process it cannot query.

\* tolower, on the characters the model uses.
tolower(c) == CASE c = "A" -> "a" [] c = "B" -> "b" [] c = "E" -> "e" [] OTHER -> c

ToLower(name) == [i \in 1..Len(name) |-> tolower(name[i])]

\* _stricmp(a, b): 0 when a and b are equal up to the case of their letters.
stricmp(a, b) == IF ToLower(a) = ToLower(b) THEN 0 ELSE 1

\* The comparison FindPidForProcess makes: _stricmp(...) == 0 in the WASAPI
\* addon, operator== of std::string in the CoreAudio addon.
NameEq(be, a, b) == IF be = "wasapi" THEN stricmp(a, b) = 0 ELSE a = b

\* s.find('.'): the position of the first '.', 0 for npos.
find(name) ==
    IF \E i \in 1..Len(name) : name[i] = "."
    THEN CHOOSE i \in 1..Len(name) :
             name[i] = "." /\ \A j \in 1..(i - 1) : name[j] # "."
    ELSE 0

\* dotPos = name.find('.'); if (dotPos != npos) name = name.substr(0, dotPos).
BaseName(name) == IF find(name) = 0 THEN name ELSE SubSeq(name, 1, find(name) - 1)

\* for (pid : allPids) if (match) return pid: the first pid among the
\* matching ones, 0 when there is none.
FirstPid(matching) ==
    IF matching = {} THEN 0
    ELSE CHOOSE i \in matching : \A j \in matching : i <= j

\* FindPidForProcess, first loop: the full names are compared.
ExactMatch(be, names, processName) ==
    FirstPid({i \in 1..Len(names) : NameEq(be, names[i], processName)})

\* FindPidForProcess, second loop: the names cut at their first '.' are
\* compared.
PartialMatch(be, names, processName) ==
    FirstPid({i \in 1..Len(names) :
                 NameEq(be, BaseName(names[i]), BaseName(processName))})

\* FindPidForProcess(processName) of addon `be` over the process list `names`.
FindPidForProcess(be, names, processName) ==
    IF ExactMatch(be, names, processName) # 0
    THEN ExactMatch(be, names, processName)
    ELSE PartialMatch(be, names, processName)

\* The process lists of at most n processes with names from N.
Tables(N, n) == UNION {[1..k -> N] : k \in 0..n}

----------------------------------------------------------------------------
\* Control thread: Start.

\* Faulty variant of Start: the members are assigned before running_ is tested.
Start_AssignsBeforeTest(pid, id) ==
    /\ tsfn_' = id
    /\ targetPid_' = pid
    /\ IF running_
       THEN /\ ret' = "false"
            /\ UNCHANGED <<running_, capture_thread_, th, crashed>>
       ELSE /\ running_' = TRUE
            /\ IF capture_thread_ # 0
               THEN /\ crashed' = TRUE
                    /\ UNCHANGED <<capture_thread_, th, ret>>
               ELSE /\ capture_thread_' = id
                    /\ th' = [th EXCEPT ![id] = [NewThread EXCEPT !.pc = FirstPc]]
                    /\ ret' = "true"
                    /\ UNCHANGED crashed

\* WasapiLoopbackCapture::Start / CoreAudioLoopbackCapture::Start, called with
\* the pid and the thread-safe function `id` made for this call.
\* Assigning a new std::thread to a handle that is still joinable calls
\* std::terminate.
Start(pid, id) ==
    IF running_
    THEN /\ ret' = "false"
         /\ UNCHANGED <<running_, tsfn_, targetPid_, capture_thread_, th, crashed>>
    ELSE /\ running_' = TRUE
         /\ tsfn_' = id
         /\ targetPid_' = pid
         /\ IF capture_thread_ # 0
            THEN /\ crashed' = TRUE
                 /\ UNCHANGED <<capture_thread_, th, ret>>
            ELSE /\ capture_thread_' = id
                 /\ th' = [th EXCEPT ![id] = [NewThread EXCEPT !.pc = FirstPc]]
                 /\ ret' = "true"
                 /\ UNCHANGED crashed

\* StartCapture (N-API glue): makes the thread-safe function, creates the
\* global capture object on first use, calls Start.
StartCapture(pid) ==
    /\ ctl = "idle" /\ ~crashed
    /\ nStarts < MaxStarts
    /\ nStarts' = nStarts + 1
    /\ tsfnCount' = [tsfnCount EXCEPT ![nStarts + 1] = 1]
    /\ g_capture' = TRUE
    /\ Start(pid, nStarts + 1)
    /\ UNCHANGED <<backend, audioUnit_, unit, cb, queue, delivered, captured,
                   ctl, stopped, pure, gateState>>

\* The names and process lists the start calls by name are made with.
StartNames == {<<>>, <<"a">>, <<"A">>}
StartTables == Tables({<<"a">>}, MaxPid)

\* Faulty variant of StartCaptureByProcessName: a name that is not found
\* falls through to Start with pid 0.
StartCaptureByProcessName_FallsThrough(processName, names) ==
    /\ ctl = "idle" /\ ~crashed
    /\ nStarts < MaxStarts
    /\ nStarts' = nStarts + 1
    /\ tsfnCount' = [tsfnCount EXCEPT ![nStarts + 1] = 1]
    /\ g_capture' = TRUE
    /\ Start(IF processName = <<>> THEN 0
             ELSE FindPidForProcess(backend, names, processName), nStarts + 1)
    /\ UNCHANGED <<backend, audioUnit_, unit, cb, queue, delivered, captured,
                   ctl, stopped, pure, gateState>>

\* StartCaptureByProcessName (N-API glue), called with a name and a function:
\* the thread-safe function is made first; a non-empty name is looked up and,
\* when no process is found, the thread-safe function is released and an
\* Error "Process not found: <name>" is thrown; otherwise Start is called with
\* the pid found (0 for an empty name).
StartCaptureByProcessName(processName, names) ==
    /\ ctl = "idle" /\ ~crashed
    /\ nStarts < MaxStarts
    /\ nStarts' = nStarts + 1
    /\ IF processName # <<>> /\ FindPidForProcess(backend, names, processName) = 0
       THEN /\ tsfnCount' = TsfnRelease([tsfnCount EXCEPT ![nStarts + 1] = 1],
                                        nStarts + 1)
            /\ ret' = "Error: Process not found"
            /\ UNCHANGED <<g_capture, running_, tsfn_, targetPid_,
                           capture_thread_, th, crashed>>
       ELSE /\ tsfnCount' = [tsfnCount EXCEPT ![nStarts + 1] = 1]
            /\ g_capture' = TRUE
            /\ Start(IF processName = <<>> THEN 0
                     ELSE FindPidForProcess(backend, names, processName),
                     nStarts + 1)
    /\ UNCHANGED <<backend, audioUnit_, unit, cb, queue, delivered, captured,
                   ctl, stopped, pure, gateState>>

\* The arguments of a call, by kind.  info[i] of N-API, with i counted from 0:
\* an index past the arguments yields undefined.
ArgLists == {<<>>, <<"function">>, <<"number", "function">>}
Arg(info, i) == IF i + 1 <= Len(info) THEN info[i + 1] ELSE "undefined"

\* The index of the argument StartCaptureExcludeCurrent takes as the callback:
\* info[1] in the WASAPI addon, info[0] in the CoreAudio addon.
CallbackIndex == IF backend = "wasapi" THEN 1 ELSE 0

\* StartCaptureExcludeCurrent (N-API glue):
\* if (info.Length() < 1 || !info[k].IsFunction()) throw TypeError
\* "Callback required"; otherwise the thread-safe function is made of info[k]
\* and Start(0, tsfn) is called.
StartCaptureExcludeCurrent(info) ==
    /\ ctl = "idle" /\ ~crashed
    /\ IF Len(info) < 1 \/ Arg(info, CallbackIndex) # "function"
       THEN /\ ret' = "TypeError: Callback required"
            /\ UNCHANGED <<nStarts, tsfnCount, g_capture, running_, tsfn_,
                           targetPid_, capture_thread_, th, crashed>>
       ELSE /\ nStarts < MaxStarts
            /\ nStarts' = nStarts + 1
            /\ tsfnCount' = [tsfnCount EXCEPT ![nStarts + 1] = 1]
            /\ g_capture' = TRUE
            /\ Start(0, nStarts + 1)
    /\ UNCHANGED <<backend, audioUnit_, unit, cb, queue, delivered, captured,
                   ctl, stopped, pure, gateState>>

----------------------------------------------------------------------------
\* Audio unit teardown (AudioOutputUnitStop, AudioUnitUninitialize,
\* AudioComponentInstanceDispose) of unit u.  AudioOutputUnitStop returns only
\* when no InputCallback is in progress.  Disposing a unit that was already
\* disposed is undefined: the process may die or the call may merely fail.
CanTeardown(u) == unit[u] = "started" => cb = "idle"

Teardown(u) ==
    IF unit[u] = "disposed"
    THEN /\ crashed' \in BOOLEAN
         /\ UNCHANGED unit
    ELSE /\ unit' = [unit EXCEPT ![u] = "disposed"]
         /\ UNCHANGED crashed

----------------------------------------------------------------------------
\* Control thread: Stop.

\* WasapiLoopbackCapture::Stop, first statement: running_ = false.
WasapiStop ==
    /\ running_' = FALSE
    /\ ctl' = "stop_join"
    /\ UNCHANGED stopped

\* Faulty variant of CoreAudioStop: no early return when running_ is false.
CoreAudioStop_NoEarlyReturn ==
    /\ running_' = FALSE
    /\ ctl' = "stop_unit"
    /\ UNCHANGED stopped

\* CoreAudioLoopbackCapture::Stop, up to the audio-unit block:
\* if (!running_) return; running_ = false.
CoreAudioStop ==
    IF ~running_
    THEN /\ stopped' = stopped \cup ({tsfn_} \ {0})
         /\ UNCHANGED <<running_, ctl>>
    ELSE /\ running_' = FALSE
         /\ ctl' = "stop_unit"
         /\ UNCHANGED stopped

\* StopCapture (N-API glue): if (g_capture) g_capture->Stop().
StopCapture ==
    /\ ctl = "idle" /\ ~crashed
    /\ IF ~g_capture
       THEN UNCHANGED <<running_, ctl, stopped>>
       ELSE IF backend = "wasapi" THEN WasapiStop ELSE CoreAudioStop
    /\ UNCHANGED <<backend, g_capture, targetPid_, tsfn_, capture_thread_,
                   audioUnit_, th, unit, cb, tsfnCount, queue, delivered,
                   captured, nStarts, ret, crashed, pure, gateState>>

\* CoreAudio Stop: if (audioUnit_ && !usingTap_) { stop, uninitialize, dispose
\* (usingTap_ is never set, aggregateDeviceId_ is never assigned: the
\* aggregate-device block is not entered).
StopUnit ==
    /\ ctl = "stop_unit" /\ ~crashed
    /\ IF audioUnit_ # 0
       THEN /\ CanTeardown(audioUnit_)
            /\ Teardown(audioUnit_)
            /\ ctl' = "stop_null"
       ELSE /\ ctl' = "stop_join"
            /\ UNCHANGED <<unit, crashed>>
    /\ UNCHANGED <<backend, g_capture, running_, targetPid_, tsfn_,
                   capture_thread_, audioUnit_, th, cb, tsfnCount, queue,
                   delivered, captured, nStarts, ret, stopped, pure, gateState>>

\* CoreAudio Stop: audioUnit_ = nullptr; }
StopNull ==
    /\ ctl = "stop_null" /\ ~crashed
    /\ audioUnit_' = 0
    /\ ctl' = "stop_join"
    /\ UNCHANGED <<backend, g_capture, running_, targetPid_, tsfn_,
                   capture_thread_, th, unit, cb, tsfnCount, queue, delivered,
                   captured, nStarts, ret, stopped, crashed, pure, gateState>>

\* Faulty variant of JoinDone: the thread is detached instead of joined.
JoinDone_Detach == TRUE

\* if (capture_thread_.joinable()) capture_thread_.join(): returns once the
\* capture thread has ended.  WASAPI's Stop returns after it; CoreAudio's Stop
\* goes on to tsfn_.Release().
JoinDone ==
    IF capture_thread_ = 0 THEN TRUE ELSE th[capture_thread_].pc = "done"

StopJoin ==
    /\ ctl = "stop_join" /\ ~crashed
    /\ JoinDone
    /\ capture_thread_' = 0
    /\ IF backend = "wasapi"
       THEN /\ ctl' = "idle"
            /\ stopped' = stopped \cup ({tsfn_} \ {0})
       ELSE /\ ctl' = "stop_release"
            /\ UNCHANGED stopped
    /\ UNCHANGED <<backend, g_capture, running_, targetPid_, tsfn_, audioUnit_,
                   th, unit, cb, tsfnCount, queue, delivered, captured,
                   nStarts, ret, crashed, pure, gateState>>

\* CoreAudio Stop: tsfn_.Release(); return.
StopRelease ==
    /\ ctl = "stop_release" /\ ~crashed
    /\ tsfnCount' = TsfnRelease(tsfnCount, tsfn_)
    /\ ctl' = "idle"
    /\ stopped' = stopped \cup ({tsfn_} \ {0})
    /\ UNCHANGED <<backend, g_capture, running_, targetPid_, tsfn_,
                   capture_thread_, audioUnit_, th, unit, cb, queue, delivered,
                   captured, nStarts, ret, crashed, pure, gateState>>

----------------------------------------------------------------------------
\* Capture thread of the WASAPI addon (the lambda of Start).

Live(t) == th[t].pc \notin {"unborn", "done"}

\* Thread t moves to pc `to`, now holding `held`.
Goto(t, to, held) == th' = [th EXCEPT ![t].pc = to, ![t].held = held]

\* A failed acquisition step: break out of the do-while to the cleanup.
Break(t) == th' = [th EXCEPT ![t].pc = "cleanup", ![t].failed = th[t].pc]

\* Faulty variant of Cleanup: the mix format block is not freed.
Cleanup_LeaksFormat(held) == held \cap {"com", "pwfx"}

\* What the statements after the do-while release: hEvent, cap, both audio
\* clients, device, enumr, pwfx.  COM stays initialised until CoUninitialize.
Cleanup(held) == held \cap {"com"}

WasapiOnly == <<g_capture, targetPid_, tsfn_, capture_thread_, audioUnit_,
                unit, cb, delivered, nStarts, ctl, ret, stopped, crashed,
                backend, pure>>

\* CoInitializeEx; on failure: running_ = false; tsfn_.Release(); return.
W_CoInit(t) ==
    /\ th[t].pc = "coinit" /\ ~crashed
    /\ \/ /\ Goto(t, "enumr", {"com"})
          /\ UNCHANGED running_
       \/ /\ th' = [th EXCEPT ![t].pc = "fail_release", ![t].failed = th[t].pc]
          /\ running_' = FALSE
    /\ UNCHANGED <<tsfnCount, queue, captured>>
    /\ UNCHANGED <<WasapiOnly, gateState>>

\* ... tsfn_.Release(); return, of a failed CoInitializeEx.
W_FailRelease(t) ==
    /\ th[t].pc = "fail_release" /\ ~crashed
    /\ tsfnCount' = TsfnRelease(tsfnCount, tsfn_)
    /\ Goto(t, "done", th[t].held)
    /\ UNCHANGED <<running_, queue, captured>>
    /\ UNCHANGED <<WasapiOnly, gateState>>

\* One acquisition step that yields resource r and leads to pc `to`, or fails:
\* CoCreateInstance(MMDeviceEnumerator), GetDefaultAudioEndpoint, GetMixFormat,
\* CreateEvent, GetService(IAudioCaptureClient), audio client Start.  After
\* the last one the thread declares its filter and gate state (hpf.setup,
\* env = 0, noiseFloor = 0.003, gainSmooth = 1) and enters the capture loop.
W_Acquire(t, at, r, to) ==
    /\ th[t].pc = at /\ ~crashed
    /\ \/ /\ Goto(t, to, th[t].held \cup {r})
          /\ gateState' = IF to = "loop" THEN t ELSE gateState
       \/ /\ Break(t)
          /\ UNCHANGED gateState
    /\ UNCHANGED <<running_, tsfnCount, queue, captured>>
    /\ UNCHANGED WasapiOnly

\* device->Activate(IAudioClient3), with the fallback to IAudioClient.
W_Activate(t) ==
    /\ th[t].pc = "activate" /\ ~crashed
    /\ \/ Goto(t, "mixfmt", th[t].held \cup {"audioClient3"})
       \/ Goto(t, "mixfmt", th[t].held \cup {"audioClient1"})
       \/ Break(t)
    /\ UNCHANGED <<running_, tsfnCount, queue, captured>>
    /\ UNCHANGED <<WasapiOnly, gateState>>

\* Initialize: on IAudioClient3 if present; when that fails the client is
\* Reset and IAudioClient is activated (if absent) and initialised instead.
W_Initialize(t) ==
    /\ th[t].pc = "init" /\ ~crashed
    /\ \/ /\ "audioClient3" \in th[t].held
          /\ Goto(t, "event", th[t].held)
       \/ Goto(t, "event", (th[t].held \ {"audioClient3"}) \cup {"audioClient1"})
       \/ th' = [th EXCEPT ![t].pc = "cleanup", ![t].failed = th[t].pc,
                           ![t].held = th[t].held \ {"audioClient3"}]
       \/ th' = [th EXCEPT ![t].pc = "cleanup", ![t].failed = th[t].pc,
                           ![t].held = (th[t].held \ {"audioClient3"})
                                           \cup {"audioClient1"}]
    /\ UNCHANGED <<running_, tsfnCount, queue, captured>>
    /\ UNCHANGED <<WasapiOnly, gateState>>

\* SetEventHandle: yields nothing, may fail.
W_SetEvent(t) ==
    /\ th[t].pc = "setevent" /\ ~crashed
    /\ \/ Goto(t, "service", th[t].held)
       \/ Break(t)
    /\ UNCHANGED <<running_, tsfnCount, queue, captured>>
    /\ UNCHANGED <<WasapiOnly, gateState>>

\* while (running_) { WaitForSingleObject(hEvent, 200); ... : the loop is left
\* when running_ is false; a signalled event leads to the packet loop (a
\* timeout re-tests running_ and changes nothing).
W_Loop(t) ==
    /\ th[t].pc = "loop" /\ ~crashed
    /\ IF running_ THEN Goto(t, "packet", th[t].held)
                   ELSE Goto(t, "stopclients", th[t].held)
    /\ UNCHANGED <<running_, tsfnCount, queue, captured>>
    /\ UNCHANGED <<WasapiOnly, gateState>>

\* GetNextPacketSize and GetBuffer: no packet, or a failure of
\* GetNextPacketSize, ends the packet loop; a failure of GetBuffer goes to its
\* branch; otherwise a buffer is held and is captured frame number n.
W_GetBuffer(t) ==
    /\ th[t].pc = "packet" /\ ~crashed
    /\ \/ /\ Goto(t, "loop", th[t].held)
          /\ UNCHANGED captured
       \/ /\ Goto(t, "getbuf_failed", th[t].held)
          /\ UNCHANGED captured
       \/ /\ Len(captured) < MaxBuffers
          /\ Goto(t, "process", th[t].held \cup {"buffer"})
          /\ captured' = Append(captured, [s |-> t, n |-> Len(captured) + 1])
    /\ UNCHANGED <<running_, tsfnCount, queue>>
    /\ UNCHANGED <<WasapiOnly, gateState>>

\* Faulty variant of W_GetBufferFailed: the failure leaves the capture loop
\* as a failed acquisition step does.
W_GetBufferFailed_EndsLoop(t) ==
    /\ th[t].pc = "getbuf_failed" /\ ~crashed
    /\ Goto(t, "stopclients", th[t].held)
    /\ UNCHANGED <<running_, tsfnCount, queue, captured>>
    /\ UNCHANGED <<WasapiOnly, gateState>>

\* if (FAILED(hr)) { printf("[addon] GetBuffer failed ..."); break; }: the
\* break leaves the packet loop only, back to the test of while (running_).
W_GetBufferFailed(t) ==
    /\ th[t].pc = "getbuf_failed" /\ ~crashed
    /\ Goto(t, "loop", th[t].held)
    /\ UNCHANGED <<running_, tsfnCount, queue, captured>>
    /\ UNCHANGED <<WasapiOnly, gateState>>

\* Mix-down, resampling, filter, gate, boost, quantisation, WAV header, then
\* tsfn_.BlockingCall with the frame.
W_Process(t) ==
    /\ th[t].pc = "process" /\ ~crashed
    /\ queue' = BlockingCall(queue, tsfn_, Frame(t, Len(captured), "capture",
                                             StreamScope(targetPid_)))
    /\ Goto(t, "relbuf", th[t].held)
    /\ UNCHANGED <<running_, tsfnCount, captured>>
    /\ UNCHANGED <<WasapiOnly, gateState>>

\* Faulty variant of W_ReleaseBuffer: the next packet is queried with the
\* buffer still held.
W_ReleaseBuffer_KeepsBuffer(t) ==
    /\ th[t].pc = "relbuf" /\ ~crashed
    /\ Goto(t, "packet", th[t].held)
    /\ UNCHANGED <<running_, tsfnCount, queue, captured>>
    /\ UNCHANGED <<WasapiOnly, gateState>>

\* cap->ReleaseBuffer(frames).
W_ReleaseBuffer(t) ==
    /\ th[t].pc = "relbuf" /\ ~crashed
    /\ Goto(t, "packet", th[t].held \ {"buffer"})
    /\ UNCHANGED <<running_, tsfnCount, queue, captured>>
    /\ UNCHANGED <<WasapiOnly, gateState>>

\* audioClient3->Stop() / audioClient1->Stop() after the loop.
W_StopClients(t) ==
    /\ th[t].pc = "stopclients" /\ ~crashed
    /\ Goto(t, "cleanup", th[t].held \ {"stream"})
    /\ UNCHANGED <<running_, tsfnCount, queue, captured>>
    /\ UNCHANGED <<WasapiOnly, gateState>>

\* CloseHandle, Reset of every ComPtr, CoTaskMemFree.
W_Cleanup(t) ==
    /\ th[t].pc = "cleanup" /\ ~crashed
    /\ Goto(t, "release", Cleanup(th[t].held))
    /\ UNCHANGED <<running_, tsfnCount, queue, captured>>
    /\ UNCHANGED <<WasapiOnly, gateState>>

\* tsfn_.Release(); CoUninitialize(); the thread ends.
W_Release(t) ==
    /\ th[t].pc = "release" /\ ~crashed
    /\ tsfnCount' = TsfnRelease(tsfnCount, tsfn_)
    /\ Goto(t, "done", th[t].held \ {"com"})
    /\ UNCHANGED <<running_, queue, captured>>
    /\ UNCHANGED <<WasapiOnly, gateState>>

WasapiThread(t) ==
    \/ W_CoInit(t)
    \/ W_FailRelease(t)
    \/ W_Acquire(t, "enumr", "enumr", "device")
    \/ W_Acquire(t, "device", "device", "activate")
    \/ W_Activate(t)
    \/ W_Acquire(t, "mixfmt", "pwfx", "init")
    \/ W_Initialize(t)
    \/ W_Acquire(t, "event", "hEvent", "setevent")
    \/ W_SetEvent(t)
    \/ W_Acquire(t, "service", "cap", "start")
    \/ W_Acquire(t, "start", "stream", "loop")
    \/ W_Loop(t)
    \/ W_GetBuffer(t)
    \/ W_Process(t)
    \/ W_GetBufferFailed(t)
    \/ W_ReleaseBuffer(t)
    \/ W_StopClients(t)
    \/ W_Cleanup(t)
    \/ W_Release(t)

----------------------------------------------------------------------------
\* Capture thread of the CoreAudio addon (the lambda of Start, with
\* TryAudioUnitHALApproach inlined).

CoreAudioOnly == <<g_capture, targetPid_, tsfn_, capture_thread_, cb, queue,
                   delivered, captured, nStarts, ctl, ret, stopped, backend,
                   pure>>

\* FindBlackHoleInputDevice; when the device is absent:
\* running_ = false; tsfn_.Release(); return.
C_Find(t) ==
    /\ th[t].pc = "find" /\ ~crashed
    /\ \/ /\ Goto(t, "hal_new", {})
          /\ UNCHANGED running_
       \/ /\ th' = [th EXCEPT ![t].pc = "c_fail_release", ![t].failed = th[t].pc]
          /\ running_' = FALSE
    /\ UNCHANGED <<audioUnit_, unit, tsfnCount, crashed>>
    /\ UNCHANGED <<CoreAudioOnly, gateState>>

\* AudioComponentFindNext and AudioComponentInstanceNew(comp, &audioUnit_):
\* either may fail, and then nothing was created.
C_New(t) ==
    /\ th[t].pc = "hal_new" /\ ~crashed
    /\ \/ /\ audioUnit_' = t
          /\ unit' = [unit EXCEPT ![t] = "created"]
          /\ Goto(t, "hal_cfg", {})
       \/ /\ th' = [th EXCEPT ![t].pc = "c_fail_flag", ![t].failed = th[t].pc]
          /\ UNCHANGED <<audioUnit_, unit>>
    /\ UNCHANGED <<running_, tsfnCount, crashed>>
    /\ UNCHANGED <<CoreAudioOnly, gateState>>

\* A call on audioUnit_ that fails inside TryAudioUnitHALApproach:
\* AudioComponentInstanceDispose(audioUnit_) (preceded by AudioUnitUninitialize
\* when AudioOutputUnitStart failed); audioUnit_ = nullptr follows.
C_Fail(t) ==
    /\ th' = [th EXCEPT ![t].pc = "c_fail_null", ![t].failed = th[t].pc]
    /\ IF audioUnit_ = 0
       THEN UNCHANGED <<unit, crashed>>
       ELSE Teardown(audioUnit_)

\* A call on audioUnit_ that can succeed only on a live unit: on a null
\* pointer it fails; on a disposed unit the behaviour is undefined (the
\* process dies, or the call fails).
C_Use(t, from, to, ok) ==
    /\ \/ /\ audioUnit_ # 0 /\ unit[audioUnit_] = from
          /\ unit' = [unit EXCEPT ![audioUnit_] = to]
          /\ Goto(t, ok, {})
          /\ UNCHANGED crashed
       \/ /\ audioUnit_ # 0 /\ unit[audioUnit_] = "disposed"
          /\ crashed' = TRUE
          /\ UNCHANGED <<th, unit>>
       \/ C_Fail(t)

\* EnableIO (input on, output off), CurrentDevice, StreamFormat,
\* SetInputCallback.
C_Configure(t) ==
    /\ th[t].pc = "hal_cfg" /\ ~crashed
    /\ C_Use(t, "created", "created", "hal_init")
    /\ UNCHANGED <<running_, audioUnit_, tsfnCount>>
    /\ UNCHANGED <<CoreAudioOnly, gateState>>

\* Faulty variant of C_Initialize: the filter and gate state of the session
\* before is kept.
C_Initialize_KeepsGateState(t) ==
    /\ th[t].pc = "hal_init" /\ ~crashed
    /\ C_Use(t, "created", "initialized", "hal_start")
    /\ UNCHANGED <<running_, audioUnit_, tsfnCount>>
    /\ UNCHANGED <<CoreAudioOnly, gateState>>

\* hpf_.setup(...); env_ = 0; noiseFloor_ = 0.003; gainSmooth_ = 1; the
\* coefficients; then AudioUnitInitialize.
C_Initialize(t) ==
    /\ th[t].pc = "hal_init" /\ ~crashed
    /\ gateState' = t
    /\ C_Use(t, "created", "initialized", "hal_start")
    /\ UNCHANGED <<running_, audioUnit_, tsfnCount>>
    /\ UNCHANGED CoreAudioOnly

\* AudioOutputUnitStart.
C_StartUnit(t) ==
    /\ th[t].pc = "hal_start" /\ ~crashed
    /\ C_Use(t, "initialized", "started", "c_loop")
    /\ UNCHANGED <<running_, audioUnit_, tsfnCount>>
    /\ UNCHANGED <<CoreAudioOnly, gateState>>

\* audioUnit_ = nullptr; return false, after a failed call.
C_FailNull(t) ==
    /\ th[t].pc = "c_fail_null" /\ ~crashed
    /\ audioUnit_' = 0
    /\ Goto(t, "c_fail_flag", {})
    /\ UNCHANGED <<running_, unit, tsfnCount, crashed>>
    /\ UNCHANGED <<CoreAudioOnly, gateState>>

\* if (!TryAudioUnitHALApproach(deviceId_)) { running_ = false; ...
C_FailFlag(t) ==
    /\ th[t].pc = "c_fail_flag" /\ ~crashed
    /\ running_' = FALSE
    /\ Goto(t, "c_fail_release", {})
    /\ UNCHANGED <<audioUnit_, unit, tsfnCount, crashed>>
    /\ UNCHANGED <<CoreAudioOnly, gateState>>

\* ... tsfn_.Release(); return; }
C_FailRelease(t) ==
    /\ th[t].pc = "c_fail_release" /\ ~crashed
    /\ tsfnCount' = TsfnRelease(tsfnCount, tsfn_)
    /\ Goto(t, "done", {})
    /\ UNCHANGED <<running_, audioUnit_, unit, crashed>>
    /\ UNCHANGED <<CoreAudioOnly, gateState>>

\* while (running_) sleep_for(100 ms): left when running_ is false.
C_Loop(t) ==
    /\ th[t].pc = "c_loop" /\ ~crashed
    /\ ~running_
    /\ Goto(t, "c_cleanup", {})
    /\ UNCHANGED <<running_, audioUnit_, unit, tsfnCount, crashed>>
    /\ UNCHANGED <<CoreAudioOnly, gateState>>

\* Faulty variant of C_Cleanup: the thread leaves the audio unit as it is.
C_Cleanup_SkipsDispose(t) ==
    /\ th[t].pc = "c_cleanup" /\ ~crashed
    /\ Goto(t, "c_release", {})
    /\ UNCHANGED <<running_, audioUnit_, unit, tsfnCount, crashed>>
    /\ UNCHANGED <<CoreAudioOnly, gateState>>

\* if (audioUnit_ && !usingTap_) { stop, uninitialize, dispose ...
C_Cleanup(t) ==
    /\ th[t].pc = "c_cleanup" /\ ~crashed
    /\ IF audioUnit_ # 0
       THEN /\ CanTeardown(audioUnit_)
            /\ Teardown(audioUnit_)
            /\ Goto(t, "c_cleanup_null", {})
       ELSE /\ Goto(t, "c_release", {})
            /\ UNCHANGED <<unit, crashed>>
    /\ UNCHANGED <<running_, audioUnit_, tsfnCount>>
    /\ UNCHANGED <<CoreAudioOnly, gateState>>

\* ... audioUnit_ = nullptr; }
C_CleanupNull(t) ==
    /\ th[t].pc = "c_cleanup_null" /\ ~crashed
    /\ audioUnit_' = 0
    /\ Goto(t, "c_release", {})
    /\ UNCHANGED <<running_, unit, tsfnCount, crashed>>
    /\ UNCHANGED <<CoreAudioOnly, gateState>>

\* tsfn_.Release(); the thread ends.
C_Release(t) ==
    /\ th[t].pc = "c_release" /\ ~crashed
    /\ tsfnCount' = TsfnRelease(tsfnCount, tsfn_)
    /\ Goto(t, "done", {})
    /\ UNCHANGED <<running_, audioUnit_, unit, crashed>>
    /\ UNCHANGED <<CoreAudioOnly, gateState>>

CoreAudioThread(t) ==
    \/ C_Find(t)
    \/ C_New(t)
    \/ C_Configure(t)
    \/ C_Initialize(t)
    \/ C_StartUnit(t)
    \/ C_FailNull(t)
    \/ C_FailFlag(t)
    \/ C_FailRelease(t)
    \/ C_Loop(t)
    \/ C_Cleanup(t)
    \/ C_CleanupNull(t)
    \/ C_Release(t)

----------------------------------------------------------------------------
\* CoreAudio's I/O thread: InputCallback, registered with inputProcRefCon =
\* this, called by the backend while the audio unit is started.

CbOnly == <<backend, g_capture, running_, targetPid_, tsfn_, capture_thread_,
            audioUnit_, th, unit, tsfnCount, delivered, nStarts, ctl, ret,
            stopped, crashed, pure, gateState>>

\* Entry: if (!capture || !capture->running_) return noErr; otherwise the
\* render buffer is malloc'ed.
CB_Enter ==
    /\ cb = "idle" /\ ~crashed
    /\ \E u \in Ids : unit[u] = "started"
    /\ running_
    /\ cb' = "render"
    /\ UNCHANGED <<queue, captured>>
    /\ UNCHANGED CbOnly

\* AudioUnitRender into the malloc'ed buffer: on success the buffer is
\* captured frame number n, on failure the callback takes the else branch.
CB_Render ==
    /\ cb = "render" /\ ~crashed
    /\ \/ /\ Len(captured) < MaxBuffers
          /\ captured' = Append(captured, [s |-> tsfn_, n |-> Len(captured) + 1])
          /\ cb' = "process"
       \/ /\ cb' = "render_failed"
          /\ UNCHANGED captured
    /\ UNCHANGED queue
    /\ UNCHANGED CbOnly

\* } else { printf("[addon] AudioUnitRender failed ...") }: the callback goes
\* on to free() and returns the status.
CB_RenderFailed ==
    /\ cb = "render_failed" /\ ~crashed
    /\ cb' = "free"
    /\ UNCHANGED <<queue, captured>>
    /\ UNCHANGED CbOnly

\* capture->ProcessAudioBuffer(&bufferList, inNumberFrames, 0): mix-down,
\* resampling, filter, gate, boost, quantisation, WAV header, then
\* tsfn_.BlockingCall with the frame.
ProcessAudioBuffer ==
    /\ cb = "process" /\ ~crashed
    /\ queue' = BlockingCall(queue, tsfn_,
                             Frame(tsfn_, Len(captured), "backend",
                                   StreamScope(targetPid_)))
    /\ cb' = "free"
    /\ UNCHANGED captured
    /\ UNCHANGED CbOnly

\* free(bufferList.mBuffers[0].mData); return status.
CB_Free ==
    /\ cb = "free" /\ ~crashed
    /\ cb' = "idle"
    /\ UNCHANGED <<queue, captured>>
    /\ UNCHANGED CbOnly

----------------------------------------------------------------------------
\* The control thread's event loop: it runs the oldest queued call of a
\* thread-safe function, cb.Call({ buffer }), when the control thread is not
\* inside an exported function.
Deliver(i) ==
    /\ ctl = "idle" /\ ~crashed
    /\ queue[i] # <<>>
    /\ delivered' = Append(delivered, Head(queue[i]))
    /\ queue' = [queue EXCEPT ![i] = Tail(queue[i])]
    /\ UNCHANGED <<backend, g_capture, running_, targetPid_, tsfn_,
                   capture_thread_, audioUnit_, th, unit, cb, tsfnCount,
                   captured, nStarts, ctl, ret, stopped, crashed, pure, gateState>>

----------------------------------------------------------------------------
\* The processing of one captured buffer: the block between GetBuffer and
\* ReleaseBuffer of the WASAPI capture loop, and ProcessAudioBuffer of the
\* CoreAudio addon (the same statements).

\* The powers of two below 2^31, computed once.
RECURSIVE Pow2R(_)
Pow2R(k) == IF k = 0 THEN 1 ELSE 2 * Pow2R(k - 1)
Pow2s == [k \in 0..30 |-> Pow2R(k)]
Pow2(k) == Pow2s[k]

\* Number of binary digits of a > 0.
RECURSIVE BitLen(_)
BitLen(a) == IF a = 0 THEN 0 ELSE 1 + BitLen(a \div 2)

Abs(a) == IF a < 0 THEN -a ELSE a
Sgn(a) == IF a < 0 THEN -1 ELSE 1

\* Sample values are kept as integers in units of 2^-QExp: QOne is 1.0f.
\* Every such value of magnitude up to 2^24 units is a float, exactly.
QOne == Pow2(QExp)

\* The result of a float operation whose exact value is a units: a rounded to
\* 24 significant binary digits, to nearest, ties to even (IEEE 754 single
\* precision, the type of every operand of the quantizer).
RoundToFloat(a) ==
    IF Abs(a) < Pow2(24) THEN a
    ELSE LET k == BitLen(Abs(a)) - 24
             q == Abs(a) \div Pow2(k)
             r == Abs(a) % Pow2(k)
             up == r > Pow2(k - 1) \/ (r = Pow2(k - 1) /\ q % 2 = 1)
         IN  Sgn(a) * (IF up THEN q + 1 ELSE q) * Pow2(k)

\* (int)f of a float f given in units: truncation toward zero.
ToInt(f) == Sgn(f) * (Abs(f) \div QOne)

\* Faulty variant of OutLen: the two rates are exchanged.
OutLen_SwappedRates(frames, inRate) ==
    IF (frames * inRate) \div 16000 = 0 THEN 1 ELSE (frames * inRate) \div 16000

\* Faulty variant of OutLen: the quotient is rounded to nearest.
OutLen_Rounds(frames, inRate) ==
    IF (2 * frames * 16000 + inRate) \div (2 * inRate) = 0 THEN 1
    ELSE (2 * frames * 16000 + inRate) \div (2 * inRate)

\* size_t outLen = (size_t)((double)mono.size() * (double)outRate /
\* (double)inRate); if (outLen == 0) outLen = 1.  The product is exact in
\* double and the conversion truncates, so the result is the integer
\* quotient.
OutLen(frames, inRate) ==
    IF (frames * 16000) \div inRate = 0 THEN 1 ELSE (frames * 16000) \div inRate

\* The largest size_t.  size_t is 64 bits wide in both addons; the model
\* keeps the wrap around with the largest integer there is.
SizeMax == 2147483647

\* mono.size() - 1 in size_t: below zero it wraps around.
LastIndex(monoSize) == IF monoSize = 0 THEN SizeMax ELSE monoSize - 1

\* The elements of mono that the resampling loop reads, for i below outLen:
\* pos = i * inRate / outRate, idx = (size_t)pos,
\* a = mono[idx < mono.size() ? idx : (mono.size()-1)],
\* b = mono[(idx+1) < mono.size() ? (idx+1) : (mono.size()-1)].
ReadIndices(monoSize, inRate) ==
    LET Idx(i) == (i * inRate) \div 16000
        Is == 0..(OutLen(monoSize, inRate) - 1)
    IN  {IF Idx(i) < monoSize THEN Idx(i) ELSE LastIndex(monoSize) :
            i \in Is}
        \cup {IF Idx(i) + 1 < monoSize THEN Idx(i) + 1
              ELSE LastIndex(monoSize) : i \in Is}

\* float x = resampled[i] * gain, given as v units:
\* if (x > 1.0f) x = 1.0f; else if (x < -1.0f) x = -1.0f.
Clamp(v) == IF v > QOne THEN QOne ELSE IF v < -QOne THEN -QOne ELSE v

\* int s = (int)(x * 32767.0f + (x >= 0 ? 0.5f : -0.5f));
\* if (s > 32767) s = 32767; if (s < -32768) s = -32768.
\* The product and the sum are float operations, each rounded to float.
Quantize(x) ==
    LET p == RoundToFloat(x * 32767)
        f == RoundToFloat(p + (IF x >= 0 THEN QOne \div 2 ELSE -(QOne \div 2)))
        q == ToInt(f)
    IN  IF q > 32767 THEN 32767 ELSE IF q < -32768 THEN -32768 ELSE q

\* The bytes a store of a uint32_t / uint16_t writes (little-endian hosts).
U32(v) == <<v % 256, (v \div 256) % 256, (v \div 65536) % 256,
            (v \div 16777216) % 256>>
U16(v) == <<v % 256, (v \div 256) % 256>>

\* The ASCII codes of "RIFF", "WAVE", "fmt " and "data".
RIFF == <<82, 73, 70, 70>>
WAVE == <<87, 65, 86, 69>>
FMT == <<102, 109, 116, 32>>
DATA == <<100, 97, 116, 97>>

\* Faulty variant of WavHeader: the format fields describe the input stream.
WavHeader_InputFormat(d) ==
    RIFF \o U32(36 + d.outLen * 2) \o WAVE \o FMT \o U32(16) \o U16(1)
         \o U16(d.inCh) \o U32(d.inRate) \o U32(d.inRate * d.inCh * 2)
         \o U16(d.inCh * 2) \o U16(16) \o DATA \o U32(d.outLen * 2)

\* Faulty variant of WavHeader: the RIFF size counts the whole header.
WavHeader_CountsHeader(d) ==
    RIFF \o U32(44 + d.outLen * 2) \o WAVE \o FMT \o U32(16) \o U16(1)
         \o U16(1) \o U32(16000) \o U32(16000 * 1 * 2) \o U16(1 * 2)
         \o U16(16) \o DATA \o U32(d.outLen * 2)

\* The 44 header bytes written with the locals d of the block:
\* channels = 1, sampleRate = outRate = 16000,
\* pcmDataSize = int16Samples.size() * sizeof(int16_t),
\* totalSize = 36 + pcmDataSize.
WavHeader(d) ==
    RIFF \o U32(36 + d.outLen * 2) \o WAVE \o FMT \o U32(16) \o U16(1)
         \o U16(1) \o U32(16000) \o U32(16000 * 1 * 2) \o U16(1 * 2)
         \o U16(16) \o DATA \o U32(d.outLen * 2)

\* The stream formats (pwfx / inputFormat_) and frame counts buffers come in.
Rates == {8000, 16000, 22050, 44100, 48000, 96000}
Channels == {1, 2}
FrameCounts == (0..MaxFrames) \cup {441, 480, 1600, 4800}

\* The values of resampled[i] * gain, in units: [-1, 1] and a little beyond.
Samples == (-(QOne + 2))..(QOne + 2)

\* The locals of the block before its first statement.
Buffer(inRate, inCh, isFloat, frames, x) ==
    [pc |-> "mono", inRate |-> inRate, inCh |-> inCh, isFloat |-> isFloat,
     frames |-> frames, x |-> x, monoSize |-> 0, outLen |-> 0, reads |-> {},
     s |-> 0, header |-> <<>>, size |-> 0]

\* The buffers the processing runs on: every format with every frame
\* count, every sample value in one format, and one second of mono
\* samples at 16000 and at 48000 Hz.
DspInputs ==
    {Buffer(r, c, f, n, 0) : r \in Rates, c \in Channels, f \in BOOLEAN,
                             n \in FrameCounts}
    \cup {Buffer(48000, 2, TRUE, 480, x) : x \in Samples}
    \cup {Buffer(r, 1, FALSE, r, 0) : r \in {16000, 48000}}

\* The session variables, which the processing of a buffer leaves alone.
session == <<backend, g_capture, running_, targetPid_, tsfn_, capture_thread_,
             audioUnit_, th, unit, cb, tsfnCount, queue, delivered, captured,
             nStarts, ctl, ret, stopped, crashed, gateState>>

\* 1) Convert to mono float: one value per frame is pushed onto mono.
D_Mono ==
    /\ dsp.pc = "mono"
    /\ dsp' = [dsp EXCEPT !.pc = "resample", !.monoSize = dsp.frames]
    /\ UNCHANGED <<session, lookup, router, listing>>

\* 2) Resample to 16 kHz: resampled has outLen elements, reads holds the
\* indices of mono the loop read.
D_Resample ==
    /\ dsp.pc = "resample"
    /\ dsp' = [dsp EXCEPT !.pc = "quantize",
                          !.outLen = OutLen(dsp.monoSize, dsp.inRate),
                          !.reads = ReadIndices(dsp.monoSize, dsp.inRate)]
    /\ UNCHANGED <<session, lookup, router, listing>>

\* 4) Quantize to int16, on the sample whose value after the gain is dsp.x.
D_Quantize ==
    /\ dsp.pc = "quantize"
    /\ dsp' = [dsp EXCEPT !.pc = "header", !.s = Quantize(Clamp(dsp.x))]
    /\ UNCHANGED <<session, lookup, router, listing>>

\* 5) Build the WAV header; wavBuffer has 44 + pcmDataSize bytes.
D_Header ==
    /\ dsp.pc = "header"
    /\ dsp' = [dsp EXCEPT !.pc = "send", !.header = WavHeader(dsp),
                          !.size = 44 + dsp.outLen * 2]
    /\ UNCHANGED <<session, lookup, router, listing>>

\* tsfn_.BlockingCall with a copy of wavBuffer.
D_Send ==
    /\ dsp.pc = "send"
    /\ dsp' = [dsp EXCEPT !.pc = "sent"]
    /\ UNCHANGED <<session, lookup, router, listing>>

DspInit ==
    /\ backend \in Backends
    /\ g_capture = FALSE
    /\ running_ = FALSE
    /\ targetPid_ = 0
    /\ tsfn_ = 0
    /\ capture_thread_ = 0
    /\ audioUnit_ = 0
    /\ th = [i \in Ids |-> NewThread]
    /\ unit = [i \in Ids |-> "none"]
    /\ cb = "idle"
    /\ tsfnCount = [i \in Ids |-> 0]
    /\ queue = [i \in Ids |-> <<>>]
    /\ delivered = <<>>
    /\ captured = <<>>
    /\ nStarts = 0
    /\ ctl = "idle"
    /\ ret = "none"
    /\ stopped = {}
    /\ crashed = FALSE
    /\ gateState = 0
    /\ lookup = [pc |-> "none"]
    /\ dsp \in DspInputs
    /\ router = [pc |-> "none"]
    /\ listing = [pc |-> "none"]

DspNext == D_Mono \/ D_Resample \/ D_Quantize \/ D_Header \/ D_Send

DspSpec == DspInit /\ [][DspNext]_vars

----------------------------------------------------------------------------
\* A call of FindPidForProcess, loop by loop.

\* The process names lookups run over: none (the process could not be
\* queried), plain, in other case, with an extension, with two dots.
ProcessNames ==
    {<<>>, <<"a">>, <<"A">>, <<"b">>, <<"a", ".", "e">>, <<"A", ".", "E">>,
     <<"a", ".", "b", ".", "e">>, <<"a", ".", "c", ".", "e">>}

LookupInputs ==
    {[pc |-> "exact", names |-> names, processName |-> processName,
      pid |-> 0, pass |-> 0] :
        names \in Tables(ProcessNames, MaxProcs), processName \in ProcessNames}

\* First loop ("try to find exact matches"): return pid at the first match.
L_Exact ==
    /\ lookup.pc = "exact"
    /\ IF ExactMatch(backend, lookup.names, lookup.processName) # 0
       THEN lookup' = [lookup EXCEPT
                          !.pc = "done", !.pass = 1,
                          !.pid = ExactMatch(backend, lookup.names,
                                             lookup.processName)]
       ELSE lookup' = [lookup EXCEPT !.pc = "partial"]
    /\ UNCHANGED <<session, dsp, router, listing>>

\* Second loop ("try partial matches"): return pid at the first match;
\* return 0 after it.
L_Partial ==
    /\ lookup.pc = "partial"
    /\ IF PartialMatch(backend, lookup.names, lookup.processName) # 0
       THEN lookup' = [lookup EXCEPT
                          !.pc = "done", !.pass = 2,
                          !.pid = PartialMatch(backend, lookup.names,
                                               lookup.processName)]
       ELSE lookup' = [lookup EXCEPT !.pc = "done", !.pid = 0]
    /\ UNCHANGED <<session, dsp, router, listing>>

LookupInit ==
    /\ backend \in Backends
    /\ g_capture = FALSE
    /\ running_ = FALSE
    /\ targetPid_ = 0
    /\ tsfn_ = 0
    /\ capture_thread_ = 0
    /\ audioUnit_ = 0
    /\ th = [i \in Ids |-> NewThread]
    /\ unit = [i \in Ids |-> "none"]
    /\ cb = "idle"
    /\ tsfnCount = [i \in Ids |-> 0]
    /\ queue = [i \in Ids |-> <<>>]
    /\ delivered = <<>>
    /\ captured = <<>>
    /\ nStarts = 0
    /\ ctl = "idle"
    /\ ret = "none"
    /\ stopped = {}
    /\ crashed = FALSE
    /\ gateState = 0
    /\ dsp = [pc |-> "none"]
    /\ router = [pc |-> "none"]
    /\ listing = [pc |-> "none"]
    /\ lookup \in LookupInputs

LookupNext == L_Exact \/ L_Partial

LookupSpec == LookupInit /\ [][LookupNext]_vars

----------------------------------------------------------------------------
\* findAudioPidForProcess and the resolution startCaptureByProcessName makes,
\* over the same processes.  A pid is the position of the process in names;
\* sessions holds the pids of the audio sessions, in the order of the session
\* enumerator (a process may have none, one or several).

\* FindActiveAudioPidForProcess(processName): the two loops run over the
\* pids of the audio sessions only.
FindActiveAudioPidForProcess(names, sessions, processName) ==
    LET Exact == {j \in 1..Len(sessions) :
                     stricmp(names[sessions[j]], processName) = 0}
        Partial == {j \in 1..Len(sessions) :
                       stricmp(BaseName(names[sessions[j]]),
                               BaseName(processName)) = 0}
    IN  IF Exact # {} THEN sessions[FirstPid(Exact)]
        ELSE IF Partial # {} THEN sessions[FirstPid(Partial)]
        ELSE 0

\* FindAudioPidForProcess (exported as findAudioPidForProcess): the WASAPI
\* addon calls FindActiveAudioPidForProcess, the CoreAudio addon
\* FindPidForProcess.
FindAudioPidForProcess(be, names, sessions, processName) ==
    IF be = "wasapi"
    THEN FindActiveAudioPidForProcess(names, sessions, processName)
    ELSE FindPidForProcess(be, names, processName)

ResolveNames == {<<"a">>, <<"A">>, <<"b">>, <<"a", ".", "e">>}

ResolveInputs ==
    UNION {{[pc |-> "resolve", names |-> names, sessions |-> sessions,
             processName |-> processName, resolved |-> 0, pid |-> 0] :
               sessions \in Tables(1..Len(names), MaxProcs),
               processName \in ResolveNames} :
           names \in Tables(ResolveNames, MaxProcs)}

\* findAudioPidForProcess(processName).
R_Resolve ==
    /\ lookup.pc = "resolve"
    /\ lookup' = [lookup EXCEPT
                    !.pc = "start",
                    !.resolved = FindAudioPidForProcess(
                                     backend, lookup.names, lookup.sessions,
                                     lookup.processName)]
    /\ UNCHANGED <<session, dsp, router, listing>>

\* startCaptureByProcessName(processName, cb), up to the pid it hands to
\* Start: pid = FindPidForProcess(processName).
R_Start ==
    /\ lookup.pc = "start"
    /\ lookup' = [lookup EXCEPT
                    !.pc = "resolved",
                    !.pid = FindPidForProcess(backend, lookup.names,
                                              lookup.processName)]
    /\ UNCHANGED <<session, dsp, router, listing>>

ResolveInit ==
    /\ backend \in Backends
    /\ NoSession
    /\ dsp = [pc |-> "none"]
    /\ router = [pc |-> "none"]
    /\ listing = [pc |-> "none"]
    /\ lookup \in ResolveInputs

ResolveNext == R_Resolve \/ R_Start

ResolveSpec == ResolveInit /\ [][ResolveNext]_vars

----------------------------------------------------------------------------
\* The boost with limiter of the processing block ("4) Mild voice boost with
\* limiter").  The peak of a buffer is p units of 2^-QExp.  A float that is
\* not a whole number of units is kept in the float form below.

\* A float (IEEE 754 single precision) is kept as [s, m, e], the value
\* s * m * 2^e with s the sign, 2^23 <= m < 2^24 for a normal number, and
\* e = EMin with m < 2^23 for a subnormal number or zero.
EMin == -149
FZero == [s |-> 1, m |-> 0, e |-> EMin]

\* The float nearest to s * (M * 2^E + rest), 0 <= M < 2^31, where rest is
\* below 2^E and is not 0 exactly when sticky: to nearest, ties to even,
\* with gradual underflow.  When sticky, M has at least 26 digits.
RoundCarry(s, m, e) ==
    IF m = 0 THEN FZero
    ELSE IF m = Pow2(24) THEN [s |-> s, m |-> Pow2(23), e |-> e + 1]
    ELSE [s |-> s, m |-> m, e |-> e]

\* q digits kept, r the digits dropped, h half a unit of the last kept one.
RoundUp(s, q, r, h, e, sticky) ==
    RoundCarry(s, IF r > h \/ (r = h /\ (sticky \/ q % 2 = 1))
                  THEN q + 1 ELSE q, e)

\* k digits of M are dropped, M has bl digits, e is the exponent kept.
RoundShift(s, M, e, sticky, bl, k) ==
    IF M = 0 \/ k > bl THEN FZero
    ELSE IF k <= 0 THEN [s |-> s, m |-> M * Pow2(-k), e |-> e]
    ELSE RoundUp(s, M \div Pow2(k), M % Pow2(k), Pow2(k - 1), e, sticky)

RoundExp(s, M, E, sticky, bl, e) == RoundShift(s, M, e, sticky, bl, e - E)

RoundLen(s, M, E, sticky, bl) ==
    RoundExp(s, M, E, sticky, bl,
             IF E + bl - 24 < EMin THEN EMin ELSE E + bl - 24)

Round(s, M, E, sticky) == RoundLen(s, M, E, sticky, BitLen(M))

FNeg(a) == IF a.m = 0 THEN a ELSE [a EXCEPT !.s = -a.s]
FAbs(a) == [a EXCEPT !.s = 1]

\* a < b and a > b.
FLt(a, b) ==
    IF a.s # b.s THEN a.s < b.s /\ (a.m # 0 \/ b.m # 0)
    ELSE IF a.s = 1 THEN a.e < b.e \/ (a.e = b.e /\ a.m < b.m)
    ELSE b.e < a.e \/ (a.e = b.e /\ b.m < a.m)
FGt(a, b) == FLt(b, a)

\* a + b: the smaller operand is brought to the exponent of the larger one
\* with five more digits, the digits that fall off are in sticky.
AddSum(x, y, M, sticky) ==
    IF M < 0 THEN Round(y.s, -M, x.e - 5, sticky)
    ELSE Round(x.s, M, x.e - 5, sticky)

AddDigits(x, y, X, Y, sticky) ==
    AddSum(x, y, IF x.s = y.s THEN X + Y
                 ELSE X - Y - (IF sticky THEN 1 ELSE 0), sticky)

\* x has the larger exponent, d is the difference of the exponents.
AddAligned(x, y, d) ==
    AddDigits(x, y, x.m * 32,
              IF d >= 30 THEN 0 ELSE (y.m * 32) \div Pow2(d),
              IF d >= 30 THEN y.m # 0 ELSE (y.m * 32) % Pow2(d) # 0)

FAdd(a, b) ==
    IF a.e >= b.e THEN AddAligned(a, b, a.e - b.e)
    ELSE AddAligned(b, a, b.e - a.e)
FSub(a, b) == FAdd(a, FNeg(b))

\* a * b: the exact product of the two 24-digit numbers is
\* hi * 2^24 + lo, of which at most 30 digits are kept.
MulRound(a, b, hi, lo, k) ==
    Round(a.s * b.s, hi * Pow2(24 - k) + lo \div Pow2(k),
          a.e + b.e + k, lo % Pow2(k) # 0)

MulHiLo(a, b, hi, lo, bl) ==
    MulRound(a, b, hi, lo, IF bl > 6 THEN bl - 6 ELSE 0)

MulLimbs(a, b, ah, al, bh, bl, t) ==
    MulHiLo(a, b, ah * bh + t \div Pow2(12),
            (t % Pow2(12)) * Pow2(12) + ((al * bl) % Pow2(12)),
            BitLen(ah * bh + t \div Pow2(12)))

MulSplit(a, b, ah, al, bh, bl) ==
    MulLimbs(a, b, ah, al, bh, bl,
             ah * bl + al * bh + (al * bl) \div Pow2(12))

FMul(a, b) ==
    MulSplit(a, b, a.m \div Pow2(12), a.m % Pow2(12),
             b.m \div Pow2(12), b.m % Pow2(12))

\* The quotient n / d digit by digit, until it has 27 digits.
RECURSIVE DivDigits(_, _, _, _)
DivDigits(q, r, d, e) ==
    IF q >= Pow2(26) THEN [q |-> q, sticky |-> r # 0, e |-> e]
    ELSE IF 2 * r >= d THEN DivDigits(2 * q + 1, 2 * r - d, d, e - 1)
         ELSE DivDigits(2 * q, 2 * r, d, e - 1)

\* a / b, for b # 0.
FDiv(a, b) ==
    IF a.m = 0 THEN FZero
    ELSE LET f == DivDigits(a.m \div b.m, a.m % b.m, b.m, 0)
         IN  Round(a.s * b.s, f.q, f.e + a.e - b.e, f.sticky)

\* The square root of n * 4^k digit by digit (n below 2^26, taken as 13
\* pairs of digits, then pairs of zeros), until it has 26 digits.
RECURSIVE SqrtDigits(_, _, _, _, _)
SqrtDigits(n, i, root, rem, e) ==
    IF root >= Pow2(25) THEN [q |-> root, sticky |-> rem # 0, e |-> e]
    ELSE LET pair == IF i >= 0 THEN (n \div Pow2(2 * i)) % 4 ELSE 0
             r4 == 4 * rem + pair
             trial == 4 * root + 1
             e1 == IF i >= 0 THEN e ELSE e - 1
         IN  IF r4 >= trial
             THEN SqrtDigits(n, i - 1, 2 * root + 1, r4 - trial, e1)
             ELSE SqrtDigits(n, i - 1, 2 * root, r4, e1)

\* sqrtf(a), for a >= 0.
FSqrt(a) ==
    IF a.m = 0 THEN FZero
    ELSE LET odd == a.e % 2 = 1
             n == IF odd THEN 2 * a.m ELSE a.m
             e == IF odd THEN a.e - 1 ELSE a.e
             f == SqrtDigits(n, 12, 0, 0, 0)
         IN  Round(1, f.q, f.e + e \div 2, f.sticky)

\* v units of 2^-QExp as a float (exact for |v| below 2^24).
ToFloat(v) == Round(Sgn(v), Abs(v), -QExp, FALSE)

\* 0.99f, the float nearest to 0.99: 16609444 * 2^-24.
C99 == [s |-> 1, m |-> 16609444, e |-> -24]
FOne == [s |-> 1, m |-> Pow2(23), e |-> -23]
\* 1e-6f, the float nearest to 1e-6: 8796093 * 2^-43.
C1em6 == [s |-> 1, m |-> 8796093, e |-> -43]

\* kVoiceBoost = 1.5f.
kVoiceBoost == [s |-> 1, m |-> 3 * Pow2(22), e |-> -23]

\* Faulty variant of Gain: the limiter aims at the full scale.
Gain_LimitsToOne(peak) ==
    IF FLt(peak, C1em6) THEN kVoiceBoost
    ELSE IF FGt(FMul(peak, kVoiceBoost), C99) THEN FDiv(FOne, peak)
         ELSE kVoiceBoost

\* if (peak < 1e-6f) gain = kVoiceBoost;
\* else gain = (peak * kVoiceBoost > 0.99f) ? (0.99f / peak) : kVoiceBoost;
Gain(peak) ==
    IF FLt(peak, C1em6) THEN kVoiceBoost
    ELSE IF FGt(FMul(peak, kVoiceBoost), C99) THEN FDiv(C99, peak)
         ELSE kVoiceBoost

MaxPeak == 1700
BoostInputs ==
    {[pc |-> "gain", peak |-> ToFloat(p), gain |-> kVoiceBoost, x |-> FZero,
      clamped |-> FALSE] : p \in 0..MaxPeak}

\* float peak ...; float gain; if ... else ...
B_Gain ==
    /\ dsp.pc = "gain"
    /\ dsp' = [dsp EXCEPT !.pc = "apply", !.gain = Gain(dsp.peak)]
    /\ UNCHANGED <<session, lookup, router, listing>>

\* float x = resampled[i] * gain; if (x > 1.0f) x = 1.0f; ..., on the sample
\* of the largest magnitude.
B_Apply ==
    /\ dsp.pc = "apply"
    /\ LET x == FMul(dsp.peak, dsp.gain)
       IN  dsp' = [dsp EXCEPT !.pc = "applied",
                              !.x = IF FGt(x, FOne) THEN FOne ELSE x,
                              !.clamped = FGt(x, FOne)]
    /\ UNCHANGED <<session, lookup, router, listing>>

BoostInit ==
    /\ backend \in Backends
    /\ NoSession
    /\ lookup = [pc |-> "none"]
    /\ router = [pc |-> "none"]
    /\ listing = [pc |-> "none"]
    /\ dsp \in BoostInputs

BoostNext == B_Gain \/ B_Apply

BoostSpec == BoostInit /\ [][BoostNext]_vars

----------------------------------------------------------------------------
\* The high-pass filter and the adaptive noise gate of the processing block
\* ("3) Lightweight noise suppression"), one step per sample.  Every float
\* operation is rounded on its own (no fused multiply-add).

\* Float literals of the gate.
F2 == [s |-> 1, m |-> Pow2(23), e |-> -22]
FHalf == [s |-> 1, m |-> Pow2(23), e |-> -24]
FQ == [s |-> 1, m |-> 11863169, e |-> -24]
F2p5 == [s |-> 1, m |-> 5 * Pow2(21), e |-> -22]
FloorStart == [s |-> 1, m |-> 12884902, e |-> -32]

\* cosf(w0) and sinf(w0) for w0 = 2.0f * PI * (90.0f / 16000.0f), and the
\* four smoothing coefficients expf(-1.0f / (tau * 16000.0f)), each the
\* float nearest to the exact value.
CosW0 == [s |-> 1, m |-> 16766739, e |-> -24]
SinW0 == [s |-> 1, m |-> 9485318, e |-> -28]
aEnv == [s |-> 1, m |-> 16672685, e |-> -24]
aRise == [s |-> 1, m |-> 16775119, e |-> -24]
aAtk == [s |-> 1, m |-> 16568806, e |-> -24]
aRel == [s |-> 1, m |-> 16756258, e |-> -24]

\* BiquadHPF::setup(16000, 90, 0.7071f).
Hpf ==
    LET alpha == FDiv(SinW0, FMul(F2, FQ))
        a0 == FAdd(FOne, alpha)
    IN  [b0 |-> FDiv(FMul(FAdd(FOne, CosW0), FHalf), a0),
         b1 |-> FDiv(FNeg(FAdd(FOne, CosW0)), a0),
         b2 |-> FDiv(FMul(FAdd(FOne, CosW0), FHalf), a0),
         a1 |-> FDiv(FMul(FNeg(F2), CosW0), a0),
         a2 |-> FDiv(FSub(FOne, alpha), a0)]

\* The state a start leaves: z1 = z2 = 0, env = 0, noiseFloor = 0.003f,
\* gainSmooth = 1; n counts the samples processed, out is the last output.
GateStart ==
    [pc |-> "gate", z1 |-> FZero, z2 |-> FZero, env |-> FZero,
     noiseFloor |-> FloorStart, gainSmooth |-> FOne, n |-> 0, out |-> FZero]

\* Faulty variant of NoiseFloor: the floor of 1e-6 is left out.
NoiseFloor_NoMinimum(env, noiseFloor) ==
    IF FLt(env, noiseFloor) THEN env
    ELSE FAdd(noiseFloor, FMul(FSub(env, noiseFloor), FSub(FOne, aRise)))

\* Faulty variant of NoiseFloor: the floor rises to the envelope at once.
NoiseFloor_FollowsEnvelope(env, noiseFloor) ==
    IF FLt(env, C1em6) THEN C1em6 ELSE env

\* if (env < noiseFloor) noiseFloor = env;
\* else noiseFloor = noiseFloor + (env - noiseFloor) * (1.0f - aRise);
\* if (noiseFloor < 1e-6f) noiseFloor = 1e-6f;
AtLeastMinimum(noiseFloor) ==
    IF FLt(noiseFloor, C1em6) THEN C1em6 ELSE noiseFloor

NoiseFloor(env, noiseFloor) ==
    AtLeastMinimum(IF FLt(env, noiseFloor) THEN env
                   ELSE FAdd(noiseFloor, FMul(FSub(env, noiseFloor),
                                              FSub(FOne, aRise))))

\* Faulty variant of GainSmooth: the smoothing never lets go of the gain.
GainSmooth_Holds(tGain, gainSmooth) == gainSmooth

\* float a = (tGain < gainSmooth) ? aAtk : aRel;
\* gainSmooth = tGain + (gainSmooth - tGain) * a;
GainSmooth(tGain, gainSmooth) ==
    FAdd(tGain, FMul(FSub(gainSmooth, tGain),
                     IF FLt(tGain, gainSmooth) THEN aAtk ELSE aRel))

\* The body of the gate loop for the sample x, on the gate state g, one
\* operator per statement; each passes the values computed so far on.
\* float y = hpf.process(x): y = b0*x + z1 and the two delay updates.
HpfOut(g, x) == FAdd(FMul(Hpf.b0, x), g.z1)
HpfZ1(g, x, y) == FSub(FAdd(FMul(Hpf.b1, x), g.z2), FMul(Hpf.a1, y))
HpfZ2(g, x, y) == FSub(FMul(Hpf.b2, x), FMul(Hpf.a2, y))

\* env = aEnv * env + (1.0f - aEnv) * fabsf(y);
Envelope(env, y) == FAdd(FMul(aEnv, env), FMul(FSub(FOne, aEnv), FAbs(y)))

\* float thr = noiseFloor * 2.5f + 1e-6f;
Threshold(noiseFloor) == FAdd(FMul(noiseFloor, F2p5), C1em6)

\* float tGain = sqrtf((env > thr) ? 1.0f : env / thr);
TargetGain(env, thr) == FSqrt(IF FGt(env, thr) THEN FOne ELSE FDiv(env, thr))

\* resampled[i] = x * gainSmooth (x the filtered sample, y here), with the
\* state the statements leave.
GateOut(g, x, y, env, noiseFloor, gainSmooth) ==
    [g EXCEPT !.z1 = HpfZ1(g, x, y),
              !.z2 = HpfZ2(g, x, y),
              !.env = env,
              !.noiseFloor = noiseFloor,
              !.gainSmooth = gainSmooth,
              !.out = FMul(y, gainSmooth)]

GateGain(g, x, y, env, noiseFloor) ==
    GateOut(g, x, y, env, noiseFloor,
            GainSmooth(TargetGain(env, Threshold(noiseFloor)), g.gainSmooth))

GateFloor(g, x, y, env) ==
    GateGain(g, x, y, env, NoiseFloor(env, g.noiseFloor))

GateStep(g, x) == GateFloor(g, x, HpfOut(g, x), Envelope(g.env, HpfOut(g, x)))

\* The samples a buffer may hold, in units of 2^-QExp.
MaxSamples == 3
GateSamples == {ToFloat(v) : v \in {-QOne, -1, 0, 1, 3, QOne \div 2}}

\* One sample of a buffer with sound.
G_Sample ==
    /\ dsp.pc = "gate"
    /\ dsp.n < MaxSamples
    /\ \E x \in GateSamples :
         dsp' = [GateStep(dsp, x) EXCEPT !.n = dsp.n + 1]
    /\ UNCHANGED <<session, lookup, router, listing>>

GateInit ==
    /\ backend \in Backends
    /\ NoSession
    /\ lookup = [pc |-> "none"]
    /\ router = [pc |-> "none"]
    /\ listing = [pc |-> "none"]
    /\ dsp = GateStart

GateNext == G_Sample

GateSpec == GateInit /\ [][GateNext]_vars

\* The gate on silent input: the samples are 0.0f from the first state on,
\* after no sound, after one sample of 0.5 or after the samples -1, 1.
\* n counts the silent samples up to outRate of them (one second).  The
\* CoreAudio addon has the same statements; the WASAPI ones are followed.
outRate == 16000
SilentStarts ==
    {[g EXCEPT !.pc = "silent"] :
        g \in {GateStart,
               GateStep(GateStart, ToFloat(QOne \div 2)),
               GateStep(GateStep(GateStart, ToFloat(-QOne)), ToFloat(QOne))}}

\* One sample of a silent buffer.
G_Silent ==
    /\ dsp.pc = "silent"
    /\ dsp' = [GateStep(dsp, FZero) EXCEPT
                 !.n = IF dsp.n < outRate THEN dsp.n + 1 ELSE dsp.n]
    /\ UNCHANGED <<session, lookup, router, listing>>

SilenceInit ==
    /\ backend = "wasapi"
    /\ NoSession
    /\ lookup = [pc |-> "none"]
    /\ router = [pc |-> "none"]
    /\ listing = [pc |-> "none"]
    /\ dsp \in SilentStarts

SilenceNext == G_Silent

SilenceSpec == SilenceInit /\ [][SilenceNext]_vars

----------------------------------------------------------------------------
\* The output router of the CoreAudio addon: SetSystemOutputToBlackHole and
\* RestoreSystemOutput, called on the control thread, and the record
\* g_originalOutputDevice they share.  Devices are numbered 1..MaxDevices.

kAudioDeviceUnknown == 0
BlackHole == 1
Devices == 1..MaxDevices

\* What FindBlackHoleOutputDevice may return: the BlackHole device when it is
\* installed and the device list can be read, kAudioDeviceUnknown otherwise.
FindBlackHoleOutputDevice(installed) ==
    IF installed THEN {BlackHole, kAudioDeviceUnknown}
                 ELSE {kAudioDeviceUnknown}

\* One more call in the history of route / restore calls, with its result,
\* the default output device it found and the backend statuses it met.
Called(r, name, result, getOk, setOk) ==
    [r EXCEPT !.calls = Append(r.calls, name), !.ret = result,
              !.rets = Append(r.rets, result),
              !.prior = r.defaultOutput, !.getOk = getOk, !.setOk = setOk]

\* Faulty variant of SetSystemOutputToBlackHole: the default output device is
\* recorded after it was changed.
SetSystemOutputToBlackHole_RecordsAfter(getOk, blackHoleOutput, setOk) ==
    /\ router.pc = "idle" /\ Len(router.calls) < MaxCalls
    /\ router' =
          IF ~getOk
          THEN Called(router, "route", FALSE, getOk, setOk)
          ELSE IF blackHoleOutput = kAudioDeviceUnknown \/ ~setOk
          THEN [Called(router, "route", FALSE, getOk, setOk)
                    EXCEPT !.g_originalOutputDevice = router.defaultOutput]
          ELSE [Called(router, "route", TRUE, getOk, setOk)
                    EXCEPT !.g_originalOutputDevice = blackHoleOutput,
                           !.defaultOutput = blackHoleOutput]
    /\ UNCHANGED <<session, lookup, dsp, listing>>

\* SetSystemOutputToBlackHole: read the default output device into
\* g_originalOutputDevice (false when the read fails); find BlackHole (false
\* when there is none); make it the default output (false when the backend
\* refuses); true.
SetSystemOutputToBlackHole(getOk, blackHoleOutput, setOk) ==
    /\ router.pc = "idle" /\ Len(router.calls) < MaxCalls
    /\ router' =
          IF ~getOk
          THEN Called(router, "route", FALSE, getOk, setOk)
          ELSE IF blackHoleOutput = kAudioDeviceUnknown \/ ~setOk
          THEN [Called(router, "route", FALSE, getOk, setOk)
                    EXCEPT !.g_originalOutputDevice = router.defaultOutput]
          ELSE [Called(router, "route", TRUE, getOk, setOk)
                    EXCEPT !.g_originalOutputDevice = router.defaultOutput,
                           !.defaultOutput = blackHoleOutput]
    /\ UNCHANGED <<session, lookup, dsp, listing>>

\* Faulty variant of RestoreSystemOutput: the record is kept after the
\* restore.
RestoreSystemOutput_KeepsRecord(setOk) ==
    /\ router.pc = "idle" /\ Len(router.calls) < MaxCalls
    /\ router' =
          IF router.g_originalOutputDevice = kAudioDeviceUnknown \/ ~setOk
          THEN Called(router, "restore", FALSE, TRUE, setOk)
          ELSE [Called(router, "restore", TRUE, TRUE, setOk)
                    EXCEPT !.defaultOutput = router.g_originalOutputDevice]
    /\ UNCHANGED <<session, lookup, dsp, listing>>

\* RestoreSystemOutput: false when nothing is recorded; make the recorded
\* device the default output (false when the backend refuses); clear the
\* record; true.
RestoreSystemOutput(setOk) ==
    /\ router.pc = "idle" /\ Len(router.calls) < MaxCalls
    /\ router' =
          IF router.g_originalOutputDevice = kAudioDeviceUnknown \/ ~setOk
          THEN Called(router, "restore", FALSE, TRUE, setOk)
          ELSE [Called(router, "restore", TRUE, TRUE, setOk)
                    EXCEPT !.defaultOutput = router.g_originalOutputDevice,
                           !.g_originalOutputDevice = kAudioDeviceUnknown]
    /\ UNCHANGED <<session, lookup, dsp, listing>>

\* The addon is loaded with nothing recorded, whatever the system's default
\* output device is and whether BlackHole is installed or not.
RouterInit ==
    /\ backend = "coreaudio"
    /\ NoSession
    /\ lookup = [pc |-> "none"]
    /\ dsp = [pc |-> "none"]
    /\ listing = [pc |-> "none"]
    /\ \E d \in Devices, installed \in BOOLEAN :
          /\ d = BlackHole => installed
          /\ router = [pc |-> "idle", defaultOutput |-> d,
                       installed |-> installed,
                       g_originalOutputDevice |-> kAudioDeviceUnknown,
                       calls |-> <<>>, ret |-> FALSE, rets |-> <<>>,
                       prior |-> d,
                       getOk |-> TRUE, setOk |-> TRUE]

RouterNext ==
    \/ \E getOk \in BOOLEAN, setOk \in BOOLEAN,
          blackHoleOutput \in FindBlackHoleOutputDevice(router.installed) :
            SetSystemOutputToBlackHole(getOk, blackHoleOutput, setOk)
    \/ \E setOk \in BOOLEAN : RestoreSystemOutput(setOk)

RouterSpec == RouterInit /\ [][RouterNext]_vars

----------------------------------------------------------------------------
\* The process list: EnumerateAudioSessions over EnumerateAllProcesses and
\* GetProcessName.  An entry of the system's process table is a pid, the name
\* GetProcessName returns for it ("" when the process cannot be queried) and
\* whether OpenProcess(PROCESS_QUERY_INFORMATION) succeeds on it.

CurrentPid == 2

\* The names EnumerateAudioSessions leaves out.
SystemNames(be) ==
    IF be = "wasapi"
    THEN {"svchost.exe", "conhost.exe", "csrss.exe", "dwm.exe", "lsass.exe",
          "services.exe", "smss.exe", "wininit.exe", "winlogon.exe"}
    ELSE {"kernel_task", "launchd", "WindowServer"}

\* Faulty variant of EnumerateAllProcesses: the own process is not left out.
EnumerateAllProcesses_KeepsSelf(be, table) ==
    LET Keep(e) == IF be = "wasapi"
                   THEN e.pid # 0 /\ e.pid # 4 /\ e.open
                   ELSE e.pid > 0
    IN  SelectSeq(table, Keep)

\* EnumerateAllProcesses.  WASAPI: not pid 0, not pid 4, not the own pid,
\* and only what OpenProcess opens.  CoreAudio: pid > 0 and not the own pid.
EnumerateAllProcesses(be, table) ==
    LET Keep(e) == IF be = "wasapi"
                   THEN e.pid # 0 /\ e.pid # 4 /\ e.pid # CurrentPid /\ e.open
                   ELSE e.pid > 0 /\ e.pid # CurrentPid
    IN  SelectSeq(table, Keep)

\* The loop of EnumerateAudioSessions over allPids: entries with an empty
\* name and entries with a system name are skipped.
EnumerateAudioSessions(be, allPids) ==
    LET Keep(e) == e.name # "" /\ e.name \notin SystemNames(be)
    IN  SelectSeq(allPids, Keep)

MaxListPid == 4
MaxEntries == 2
ListNames == {"", "app.exe", "svchost.exe", "launchd"}
Entries == [pid : 0..MaxListPid, name : ListNames, open : BOOLEAN]

\* The process tables of at most n entries, no pid twice.
RECURSIVE ProcessTables(_)
ProcessTables(n) ==
    IF n = 0 THEN {<<>>}
    ELSE LET shorter == ProcessTables(n - 1)
         IN  shorter \cup
             {Append(t, e) : t \in {x \in shorter : Len(x) = n - 1},
                             e \in Entries}

ListingInputs ==
    {[pc |-> "all", table |-> t, allPids |-> <<>>, result |-> <<>>] :
        t \in {x \in ProcessTables(MaxEntries) :
                  \A i, j \in 1..Len(x) : x[i].pid = x[j].pid => i = j}}

\* std::vector<DWORD> allPids = EnumerateAllProcesses();
E_All ==
    /\ listing.pc = "all"
    /\ listing' = [listing EXCEPT
                      !.pc = "names",
                      !.allPids = EnumerateAllProcesses(backend, listing.table)]
    /\ UNCHANGED <<session, lookup, dsp, router>>

\* for (DWORD pid : allPids) { ... result[resultIndex++] = session; }
E_Names ==
    /\ listing.pc = "names"
    /\ listing' = [listing EXCEPT
                      !.pc = "done",
                      !.result = EnumerateAudioSessions(backend,
                                                        listing.allPids)]
    /\ UNCHANGED <<session, lookup, dsp, router>>

ListingInit ==
    /\ backend \in Backends
    /\ NoSession
    /\ lookup = [pc |-> "none"]
    /\ dsp = [pc |-> "none"]
    /\ router = [pc |-> "none"]
    /\ listing \in ListingInputs

ListingNext == E_All \/ E_Names

ListingSpec == ListingInit /\ [][ListingNext]_vars

----------------------------------------------------------------------------
Next ==
    \/ \E pid \in Pids : StartCapture(pid)
    \/ \E processName \in StartNames, names \in StartTables :
           StartCaptureByProcessName(processName, names)
    \/ \E info \in ArgLists : StartCaptureExcludeCurrent(info)
    \/ StopCapture
    \/ StopUnit
    \/ StopNull
    \/ StopJoin
    \/ StopRelease
    \/ \E t \in Ids : WasapiThread(t)
    \/ \E t \in Ids : CoreAudioThread(t)
    \/ CB_Enter
    \/ CB_Render
    \/ ProcessAudioBuffer
    \/ CB_RenderFailed
    \/ CB_Free
    \/ \E i \in Ids : Deliver(i)

Spec == Init /\ [][Next]_vars

\* Fair scheduling: a stop call in progress, a capture thread and a callback
\* in progress each go on while they can (every backend call returns).  No
\* fairness is asked of the control thread's calls, of the consumer or of
\* the arrival of buffers.
Fairness ==
    /\ WF_vars(StopUnit) /\ WF_vars(StopNull)
    /\ WF_vars(StopJoin) /\ WF_vars(StopRelease)
    /\ WF_vars(\E t \in Ids : WasapiThread(t))
    /\ WF_vars(\E t \in Ids : CoreAudioThread(t))
    /\ WF_vars(CB_Render) /\ WF_vars(ProcessAudioBuffer)
    /\ WF_vars(CB_RenderFailed) /\ WF_vars(CB_Free)

FairSpec == Spec /\ Fairness

----------------------------------------------------------------------------
\* Properties.

Failed(t) == th[t].failed # "no"

\* C1: a start call made while running_ is set returns false and leaves the
\* running session as it was: the same target pid, the same frame callback,
\* the same capture thread (handle and position), running_ still set.
C1_StartWhileRunningRejected ==
    [][\A pid \in Pids :
         (running_ /\ StartCapture(pid)) =>
             /\ ret' = "false"
             /\ UNCHANGED <<running_, targetPid_, tsfn_, capture_thread_, th,
                            audioUnit_, unit, queue>>]_vars

\* A start call was rejected while a session was in its capture loop.
C1_Witness ==
    /\ ret = "false" /\ running_ /\ nStarts = 2
    /\ tsfn_ = 1 /\ capture_thread_ = 1
    /\ th[1].pc \in {"loop", "c_loop"}

\* C2: at most one capture thread is alive, and at most one audio unit exists,
\* at any time.
C2_OneLiveSession ==
    /\ Cardinality({t \in Ids : Live(t)}) <= 1
    /\ Cardinality({u \in Ids : unit[u] \in {"created", "initialized", "started"}}) <= 1

\* A second session is alive after the first one has ended.
C2_Witness == th[1].pc = "done" /\ Live(2) /\ running_

\* C3: once stop has returned for a session, no frame of that session is
\* handed to the frame callback.
C3_NoFrameAfterStop ==
    [][Len(delivered') > Len(delivered) =>
           delivered'[Len(delivered')].s \notin stopped]_vars


\* The variables a stop call on a session that is not running must not touch.
NoopVars == <<g_capture, running_, targetPid_, tsfn_, audioUnit_, unit, th,
              tsfnCount, queue, captured, delivered, nStarts, ret, crashed>>

\* C4: a stop call made while running_ is false changes nothing of the
\* session (flag, pid, callback, thread position, audio unit, resources,
\* queued frames), makes no backend call and does not fail.  CoreAudio's Stop
\* returns at once; WASAPI's Stop only joins a capture thread that has ended
\* or is ending, and that join changes nothing else either.
C4_StopNotRunningIsNoop ==
    [][/\ (StopCapture /\ ~running_) =>
              /\ UNCHANGED NoopVars
              /\ UNCHANGED capture_thread_
              /\ backend = "coreaudio" => ctl' = "idle"
       /\ (StopJoin /\ backend = "wasapi") =>
              /\ UNCHANGED NoopVars
              /\ ctl' = "idle"]_vars

\* CoreAudio: stop has returned for a session whose thread was never joined,
\* which only the early return of a stop call on a not-running session does.
C4_Witness ==
    /\ backend = "coreaudio" /\ ctl = "idle" /\ ~running_
    /\ capture_thread_ # 0 /\ tsfn_ \in stopped

\* C5: a capture thread whose acquisition failed holds nothing once its
\* cleanup has run (WASAPI: only COM until CoUninitialize, nothing at its
\* end), and its audio unit, if one was created, is disposed before
\* TryAudioUnitHALApproach returns false.
C5_RollbackOnFailure ==
    \A t \in Ids :
        Failed(t) =>
            /\ th[t].pc = "release" => th[t].held \subseteq {"com"}
            /\ th[t].pc = "done" => th[t].held = {}
            /\ th[t].pc \in {"c_fail_null", "c_fail_flag", "c_fail_release", "done"}
                  => unit[t] \in {"none", "disposed"}

\* WASAPI: the last acquisition step (audio client Start) failed, with every
\* resource acquired before it, and the thread has ended.
C5_Witness ==
    \E t \in Ids : th[t].failed = "start" /\ th[t].pc = "done" /\ th[t].held = {}

\* C6: once the capture thread of the current session has ended after a failed
\* acquisition, running_ is false (so the next start call is not rejected).
C6_IdleAfterFailedStart ==
    \A t \in Ids :
        (Failed(t) /\ th[t].pc = "done" /\ capture_thread_ = t /\ tsfn_ = t
            /\ ctl = "idle")
        => ~running_

\* C7: the last start call did not return true if its session's acquisition
\* failed.
C7_FailureReported ==
    \A t \in Ids : (t = nStarts /\ Failed(t)) => ret # "true"

\* The frame numbers of session s in a sequence of frames, in order.
RECURSIVE Of(_, _)
Of(seq, s) ==
    IF seq = <<>> THEN <<>>
    ELSE IF Head(seq).s = s THEN <<Head(seq).n>> \o Of(Tail(seq), s)
         ELSE Of(Tail(seq), s)

IsPrefix(a, b) == Len(a) <= Len(b) /\ SubSeq(b, 1, Len(a)) = a

\* A captured buffer is being processed and has not been sent yet.
Processing == cb = "process" \/ \E t \in Ids : th[t].pc = "process"

\* C8: for every session, the frames delivered so far followed by the frames
\* still queued are the captured buffers in capture order, each exactly once,
\* with none missing but the buffer being processed; every frame is queued
\* for its own session's callback.
C8_InOrderExactlyOnce ==
    \A s \in Ids :
        LET sent == Of(delivered, s) \o Of(queue[s], s)
            capt == Of(captured, s)
        IN  /\ IsPrefix(sent, capt)
            /\ Len(capt) - Len(sent) <= (IF Processing THEN 1 ELSE 0)
            /\ \A k \in 1..Len(queue[s]) : queue[s][k].s = s

\* Two buffers of one session were captured and both frames were delivered.
C8_Witness == Of(delivered, 1) = <<1, 2>>

\* C9: at most one frame is pending between the sending thread and the
\* consumer.
C9_AtMostOnePending == \A i \in Ids : Len(queue[i]) <= 1

\* C10: the backend's callback thread never holds an allocation, and every
\* frame was processed and sent by the capture thread.
C10_CallbackThreadDoesNoWork ==
    /\ cb \notin {"render", "render_failed", "process", "free"}
    /\ \A i \in Ids : \A k \in 1..Len(queue[i]) : queue[i][k].by = "capture"
    /\ \A k \in 1..Len(delivered) : delivered[k].by = "capture"

\* C11: when a stop call that went through Stop's join returns, the capture
\* thread of the session has ended, it holds no WASAPI resource, and the
\* session's audio unit, if one was created, has been disposed.
C11_StopReleasesEverything ==
    [][(ctl # "idle" /\ ctl' = "idle") =>
           /\ capture_thread_' = 0
           /\ tsfn_ \in Ids
           /\ th'[tsfn_].pc = "done"
           /\ th'[tsfn_].held = {}
           /\ unit'[tsfn_] \in {"none", "disposed"}]_vars

\* Stop has returned for a session that acquired everything and captured.
C11_Witness ==
    \E s \in stopped :
        /\ ctl = "idle" /\ ~running_ /\ capture_thread_ = 0
        /\ th[s].pc = "done" /\ ~Failed(s)
        /\ Of(captured, s) # <<>>

\* C12: a start by a non-empty name for which the lookup finds no process
\* ends with the error "Process not found" (neither true nor false), spawns no
\* capture thread and leaves the running flag, the target pid, the callback
\* and the capture thread as they were.
C12_NotFoundLeavesSession ==
    [][\A processName \in StartNames, names \in StartTables :
         (/\ processName # <<>>
          /\ FindPidForProcess(backend, names, processName) = 0
          /\ StartCaptureByProcessName(processName, names)) =>
             /\ ret' = "Error: Process not found"
             /\ UNCHANGED <<running_, targetPid_, tsfn_, capture_thread_, th,
                            g_capture, audioUnit_, unit, queue>>]_vars

\* A name was not found while a session started by pid was capturing.
C12_Witness ==
    /\ ret = "Error: Process not found" /\ nStarts = 2
    /\ running_ /\ tsfn_ = 1 /\ targetPid_ = 1
    /\ th[1].pc \in {"loop", "c_loop"} /\ th[2].pc = "unborn"

\* C13: a call of startCaptureExcludeCurrent with a function as its only
\* argument, made while running_ is false and no thread is left to join,
\* returns true and starts what startCapture(0, cb) starts: target pid 0, the
\* new callback, a new capture thread.
C13_ExcludeCurrentStarts ==
    [][(/\ ~running_ /\ capture_thread_ = 0
        /\ StartCaptureExcludeCurrent(<<"function">>)) =>
           /\ ret' = "true"
           /\ running_' /\ targetPid_' = 0
           /\ tsfn_' = nStarts' /\ capture_thread_' = nStarts'
           /\ th'[nStarts'].pc = FirstPc]_vars

\* C14: in the WASAPI addon, every frame a session with target pid > 0 sends
\* was read from a stream that carries the audio of that process only (so
\* that what other processes play cannot change the frame).
C14_OnlyTargetProcessAudio ==
    [][\A t \in Ids :
         (backend = "wasapi" /\ targetPid_ > 0 /\ W_Process(t)) =>
             queue'[tsfn_][Len(queue'[tsfn_])].of = targetPid_]_vars

\* The unsigned integers read back from a byte sequence at a byte offset
\* (counted from 0), least significant byte first.
U16At(h, off) == h[off + 1] + 256 * h[off + 2]
U32At(h, off) == h[off + 1] + 256 * h[off + 2] + 65536 * h[off + 3]
                     + 16777216 * h[off + 4]

\* C15: every frame sent starts with a 44-byte header that reads "RIFF",
\* "WAVE", "fmt ", "data" at offsets 0, 8, 12, 36 and format tag 1, 1 channel,
\* sample rate 16000, byte rate 32000, block align 2, 16 bits per sample,
\* whatever the rate, channel count and sample type of the input stream.
C15_FixedHeaderFields ==
    dsp.pc = "sent" =>
        /\ Len(dsp.header) = 44 /\ dsp.size >= 44
        /\ SubSeq(dsp.header, 1, 4) = <<82, 73, 70, 70>>
        /\ SubSeq(dsp.header, 9, 12) = <<87, 65, 86, 69>>
        /\ SubSeq(dsp.header, 13, 16) = <<102, 109, 116, 32>>
        /\ SubSeq(dsp.header, 37, 40) = <<100, 97, 116, 97>>
        /\ U32At(dsp.header, 16) = 16
        /\ U16At(dsp.header, 20) = 1
        /\ U16At(dsp.header, 22) = 1
        /\ U32At(dsp.header, 24) = 16000
        /\ U32At(dsp.header, 28) = 32000
        /\ U16At(dsp.header, 32) = 2
        /\ U16At(dsp.header, 34) = 16

\* A frame was sent for a buffer of a 44.1 kHz stereo integer stream.
C15_Witness ==
    /\ dsp.pc = "sent" /\ dsp.inRate = 44100 /\ dsp.inCh = 2 /\ ~dsp.isFloat
    /\ dsp.frames = 441 /\ dsp.outLen = 160

\* C16: with P = 2 * (number of output samples) the payload size of a frame
\* sent, the field at offset 4 reads 36 + P, the field at offset 40 reads P
\* and the frame has 44 + P bytes; for P = 32000 they read 32036 and 32000.
C16_HeaderSizeFields ==
    dsp.pc = "sent" =>
        LET P == 2 * dsp.outLen
        IN  /\ U32At(dsp.header, 4) = 36 + P
            /\ U32At(dsp.header, 40) = P
            /\ dsp.size = 44 + P
            /\ P = 32000 => /\ U32At(dsp.header, 4) = 32036
                            /\ U32At(dsp.header, 40) = 32000

\* A frame of 16000 samples (32000 payload bytes) was sent.
C16_Witness ==
    /\ dsp.pc = "sent" /\ dsp.outLen = 16000 /\ dsp.size = 32044
    /\ SubSeq(dsp.header, 5, 8) = <<36, 125, 0, 0>>
    /\ SubSeq(dsp.header, 41, 44) = <<0, 125, 0, 0>>

\* x rounded to the nearest integer, halves away from zero, for x = a / b
\* with b > 0.
RoundHalfAway(a, b) == Sgn(a) * ((2 * Abs(a) + b) \div (2 * b))

Resampled == dsp.pc \in {"quantize", "header", "send", "sent"}

\* C17 as stated: the output length is round(N * 16000 / R), and 1 when that
\* is 0.
C17_OutLenIsRounded ==
    Resampled =>
        dsp.outLen = (IF RoundHalfAway(dsp.frames * 16000, dsp.inRate) = 0 THEN 1
                      ELSE RoundHalfAway(dsp.frames * 16000, dsp.inRate))

\* C17 as amended: the output length is N * 16000 / R truncated to an integer
\* (the largest L with L * R <= N * 16000), and 1 when that is 0.
C17_OutLenIsTruncated ==
    Resampled =>
        /\ dsp.outLen >= 1
        /\ dsp.frames * 16000 >= dsp.inRate =>
               /\ dsp.outLen * dsp.inRate <= dsp.frames * 16000
               /\ dsp.frames * 16000 < (dsp.outLen + 1) * dsp.inRate
        /\ dsp.frames * 16000 < dsp.inRate => dsp.outLen = 1

\* 5 frames at 48 kHz (5/3 of an output sample) gave 1 output sample.
C17_Witness ==
    Resampled /\ dsp.frames = 5 /\ dsp.inRate = 48000 /\ dsp.outLen = 1

\* C18: for a buffer of N >= 1 frames the output length differs from
\* round(N * 16000 / R) by at most 1.
C18_OutLenWithinOne ==
    (Resampled /\ dsp.frames >= 1) =>
        Abs(dsp.outLen - RoundHalfAway(dsp.frames * 16000, dsp.inRate)) <= 1

\* 1 frame at 96 kHz (1/6 of an output sample, which rounds to 0) gave 1
\* output sample.
C18_Witness ==
    Resampled /\ dsp.frames = 1 /\ dsp.inRate = 96000 /\ dsp.outLen = 1

\* C19: the quantized value of a sample x limited to [-1, 1] is x * 32767
\* rounded to the nearest integer, halves away from zero, and lies in
\* [-32768, 32767].
C19_QuantizeRoundsHalfAway ==
    dsp.pc \in {"header", "send", "sent"} =>
        /\ dsp.s = RoundHalfAway(Clamp(dsp.x) * 32767, QOne)
        /\ dsp.s \in -32768..32767

\* a and b are the same name up to the case of their letters.
SameButCase(a, b) ==
    /\ Len(a) = Len(b)
    /\ \A i \in 1..Len(a) :
           \/ a[i] = b[i]
           \/ {a[i], b[i]} \in {{"a", "A"}, {"b", "B"}, {"e", "E"}}

\* C20: when some process of the list has the name asked for up to letter
\* case, the lookup ends in its first loop with such a process.
C20_FirstPassIgnoresCase ==
    (/\ lookup.pc = "done"
     /\ \E i \in 1..Len(lookup.names) :
            SameButCase(lookup.names[i], lookup.processName)) =>
        /\ lookup.pass = 1
        /\ lookup.pid \in 1..Len(lookup.names)
        /\ SameButCase(lookup.names[lookup.pid], lookup.processName)

\* The part of a name before its last '.', the whole name when it has none.
BeforeLastDot(name) ==
    IF \E i \in 1..Len(name) : name[i] = "."
    THEN SubSeq(name, 1,
                (CHOOSE i \in 1..Len(name) :
                     name[i] = "." /\ \A j \in (i + 1)..Len(name) : name[j] # ".")
                - 1)
    ELSE name

\* C21: a lookup that ends in its second loop returns a process whose name
\* before its last '.' is the query before its last '.' (up to letter case,
\* the most the comparison may ignore).
C21_SecondPassStripsLastDot ==
    (lookup.pc = "done" /\ lookup.pass = 2) =>
        /\ lookup.pid \in 1..Len(lookup.names)
        /\ SameButCase(BeforeLastDot(lookup.names[lookup.pid]),
                       BeforeLastDot(lookup.processName))

\* The candidates of a lookup that match the query in the first pass (full
\* name, letter case ignored) and in the second (names before the last '.').
FullMatches ==
    {i \in 1..Len(lookup.names) :
        SameButCase(lookup.names[i], lookup.processName)}
BaseMatches ==
    {i \in 1..Len(lookup.names) :
        SameButCase(BeforeLastDot(lookup.names[i]),
                    BeforeLastDot(lookup.processName))}

\* C22: the lookup returns 0 exactly when no candidate matches in either
\* pass, and when some candidate matches by its full name the pid returned
\* is that of a candidate matching by its full name.
C22_NotFoundIffNoMatch ==
    lookup.pc = "done" =>
        /\ lookup.pid = 0 <=> (FullMatches = {} /\ BaseMatches = {})
        /\ FullMatches # {} => lookup.pid \in FullMatches

\* C23: the step that follows a failed GetBuffer or a failed AudioUnitRender
\* leaves the running flag, the thread-safe function, the audio units and
\* everything the capture thread holds as they were, and goes back to the
\* top of the capture loop (WASAPI) or to the end of the callback (CoreAudio),
\* from where the next buffer is fetched as after a successful one.
C23_LoopFailureKeepsSession ==
    [][ /\ \A t \in Ids :
             (th[t].pc = "getbuf_failed" /\ th'[t].pc # "getbuf_failed") =>
                 /\ th'[t].pc = "loop"
                 /\ th'[t].held = th[t].held
                 /\ UNCHANGED <<running_, tsfnCount, capture_thread_>>
        /\ (cb = "render_failed" /\ cb' # "render_failed") =>
                 /\ cb' = "free"
                 /\ UNCHANGED <<running_, tsfnCount, unit, audioUnit_, th>>
      ]_vars

\* Past the first captured buffer, GetBuffer failed while the session runs and
\* the capture thread holds every resource of the capture loop.
C23_Witness ==
    \E t \in Ids :
        /\ th[t].pc = "getbuf_failed" /\ running_ /\ capture_thread_ = t
        /\ Len(captured) >= 1
        /\ {"hEvent", "cap", "pwfx", "device", "enumr"} \subseteq th[t].held

\* The last two calls were a route call and then a restore call.
RouteThenRestore ==
    /\ router.pc = "idle" /\ Len(router.calls) >= 2
    /\ router.calls[Len(router.calls) - 1] = "route"
    /\ router.calls[Len(router.calls)] = "restore"

C25_ListLeavesOutSelfAndSystem ==
    listing.pc = "done" =>
        \A k \in 1..Len(listing.result) :
            /\ listing.result[k].pid # CurrentPid
            /\ listing.result[k].name # ""
            /\ listing.result[k].name \notin SystemNames(backend)

\* The process table held the own process under an ordinary name, next to
\* another process that is listed.
C25_Witness ==
    /\ listing.pc = "done"
    /\ \E i \in 1..Len(listing.table) :
          /\ listing.table[i].pid = CurrentPid
          /\ listing.table[i].name = "app.exe" /\ listing.table[i].open
    /\ Len(listing.result) = 1

\* C26: once a stop call has returned for the current session, no capture
\* thread is alive and running_ is false, and a start call made then is
\* accepted: it returns true, with running_ set and a new capture thread.
C26_StartAfterStop ==
    [][ (ctl = "idle" /\ tsfn_ \in stopped /\ ~crashed) =>
            /\ ~running_
            /\ \A t \in Ids : ~Live(t)
            /\ \A pid \in Pids :
                   StartCapture(pid) =>
                       /\ ret' = "true" /\ ~crashed' /\ running_'
                       /\ th'[nStarts + 1].pc \notin {"unborn", "done"} ]_vars

\* C27: a start call that is not rejected finds the thread handle empty: the
\* capture thread of the session before it, if there was one, has been
\* joined.
C27_StartFindsHandleJoined ==
    [][ (nStarts' = nStarts + 1 /\ tsfn_' = nStarts')
            => capture_thread_ = 0 ]_vars

\* The session's audio unit has been disposed and audioUnit_ still points
\* to it.
Dangling == audioUnit_ # 0 /\ unit[audioUnit_] = "disposed"

\* C28: no step stops or disposes an audio unit that was disposed already,
\* and no step sets up, starts or renders from a disposed audio unit.
C28_DisposedOnceNeverUsedAfter ==
    [][ /\ StopUnit => ~Dangling
        /\ \A t \in Ids :
              (C_Cleanup(t) \/ C_Configure(t) \/ C_Initialize(t)
                  \/ C_StartUnit(t)) => ~Dangling
        /\ CB_Render => ~Dangling ]_vars

\* A step that calls tsfn_.Release().
Releases ==
    \/ StopRelease
    \/ \E t \in Ids : W_Release(t) \/ W_FailRelease(t) \/ C_Release(t)
                           \/ C_FailRelease(t)

\* C29: once the control thread is idle, the thread-safe function of every
\* start call whose session has ended, or that started no session, has been
\* released; and no step releases a thread-safe function that was released
\* already.
C29_ReleasedExactlyOnce ==
    [][ /\ (ctl = "idle" /\ ~crashed) =>
              \A id \in 1..nStarts :
                  th[id].pc \in {"unborn", "done"} => tsfnCount[id] = 0
        /\ Releases => (tsfn_ # 0 /\ tsfnCount[tsfn_] > 0) ]_vars

\* A stop call is in progress on a session whose capture thread is in its
\* capture loop.
StoppingRunning ==
    /\ ctl # "idle" /\ capture_thread_ # 0
    /\ th[capture_thread_].pc \in
           {"loop", "packet", "getbuf_failed", "process", "relbuf", "c_loop"}

C31_GateStateResetOnStart ==
    [][ /\ \A t \in Ids : W_Process(t) => gateState = t
        /\ ProcessAudioBuffer =>
               gateState = captured[Len(captured)].s ]_vars

\* A buffer of the second session is processed by the callback after the
\* first session had processed one.
C31_Witness ==
    /\ cb = "process" /\ gateState = 2
    /\ Len(captured) = 2 /\ captured[1].s = 1 /\ captured[2].s = 2

\* The frame of the buffer captured last, by session t, has been handed to
\* the thread-safe function: it is queued or was delivered.
SentLast(t) ==
    \/ \E k \in 1..Len(queue[t]) :
           queue[t][k].s = t /\ queue[t][k].n = Len(captured)
    \/ \E k \in 1..Len(delivered) :
           delivered[k].s = t /\ delivered[k].n = Len(captured)

\* C32: the WASAPI capture thread holds a buffer exactly between a
\* successful GetBuffer and the ReleaseBuffer that follows it; when it
\* comes to ReleaseBuffer the buffer's frame has been handed to the
\* thread-safe function; GetBuffer is called with no buffer held and
\* ReleaseBuffer releases the one held.
C32_BufferReleasedOnceAfterSend ==
    [][ \A t \in Ids :
          /\ ("buffer" \in th[t].held) <=> (th[t].pc \in {"process", "relbuf"})
          /\ th[t].pc = "relbuf" => SentLast(t)
          /\ W_GetBuffer(t) => "buffer" \notin th[t].held
          /\ W_ReleaseBuffer(t) =>
                 ("buffer" \in th[t].held /\ "buffer" \notin th'[t].held
                     /\ th'[t].pc = "packet") ]_vars

\* The second buffer of a session is about to be released, its frame queued
\* behind the first one.
C32_Witness ==
    \E t \in Ids :
        /\ th[t].pc = "relbuf" /\ "buffer" \in th[t].held
        /\ Len(captured) = 2 /\ captured[1].s = t /\ captured[2].s = t
        /\ Len(queue[t]) = 2


\* The float one rounding step above 0.99f.
C99Up == [C99 EXCEPT !.m = C99.m + 1]

\* The gain the boost chose is the one the rule names: 1.5 when the peak is
\* below 1e-6 or peak * 1.5 <= 0.99, else 0.99 / peak.
GainRule ==
    dsp.gain = IF \/ FLt(dsp.peak, C1em6)
                  \/ ~FGt(FMul(dsp.peak, kVoiceBoost), C99)
               THEN kVoiceBoost
               ELSE FDiv(C99, dsp.peak)

\* C33 (as stated): the gain is 1.5 when the peak is below 1e-6 or
\* peak * 1.5 <= 0.99, else 0.99 / peak; the peak after the gain never
\* exceeds 0.99 and the clamp to [-1, 1] alters no sample.
C33_PeakAfterGainAtMost099 ==
    dsp.pc = "applied" =>
        /\ GainRule
        /\ ~FGt(dsp.x, C99)
        /\ ~dsp.clamped

\* C33 (amended): the gain follows the rule; the peak after the gain never
\* exceeds 0.99f by more than one rounding step of the float format and the
\* clamp to [-1, 1] alters no sample.
C33_PeakAfterGainWithinOneStep ==
    dsp.pc = "applied" =>
        /\ GainRule
        /\ ~FGt(dsp.x, C99Up)
        /\ ~dsp.clamped

\* A limited buffer whose peak after the gain is above 0.99f.
C33_Witness ==
    /\ dsp.pc = "applied"
    /\ dsp.gain # kVoiceBoost
    /\ dsp.x = C99Up

\* C34: after every processed sample, whatever the samples were, the noise
\* floor of the gate is at least 1e-6 (the float 1e-6f of the code), so it
\* is never negative and never zero.
C34_NoiseFloorAtLeastMinimum ==
    (dsp.pc = "gate" /\ dsp.n > 0) =>
        /\ ~FLt(dsp.noiseFloor, C1em6)
        /\ dsp.noiseFloor.s = 1 /\ dsp.noiseFloor.m > 0

\* A sample that brought the envelope below 1e-6: the floor stands at 1e-6.
C34_Witness ==
    /\ dsp.pc = "gate" /\ dsp.n > 0
    /\ FLt(dsp.env, C1em6)
    /\ dsp.noiseFloor = C1em6

\* The next float above a >= 0.
FUp(a) ==
    IF a.m + 1 = Pow2(24) THEN [a EXCEPT !.m = Pow2(23), !.e = a.e + 1]
    ELSE [a EXCEPT !.m = a.m + 1]

\* max(envelope, 1e-6).
EnvOrMinimum(g) == IF FLt(g.env, C1em6) THEN C1em6 ELSE g.env

\* An upper bound of (1 - riseCoefficient) * (envelope - previous floor):
\* the difference and the product each rounded up to the next float.
RiseBound(env, floor) == FUp(FMul(FUp(FSub(env, floor)), FSub(FOne, aRise)))

\* C35 (as stated): on each sample the noise floor falls at once to the
\* envelope when the envelope is below it and otherwise moves toward the
\* envelope; after the sample it does not exceed max(envelope, 1e-6), and it
\* never rises by more than (1 - riseCoefficient) * (envelope - previous
\* floor).
C35_FloorRisesAtMostByFraction ==
    [][ G_Sample =>
          /\ FLt(dsp'.env, dsp.noiseFloor) =>
                dsp'.noiseFloor = EnvOrMinimum(dsp')
          /\ ~FLt(dsp'.env, dsp.noiseFloor) =>
                /\ ~FLt(dsp'.noiseFloor, dsp.noiseFloor)
                /\ ~FGt(FSub(dsp'.noiseFloor, dsp.noiseFloor),
                        RiseBound(dsp'.env, dsp.noiseFloor))
          /\ ~FGt(dsp'.noiseFloor, EnvOrMinimum(dsp')) ]_vars

\* C35 (amended): as above, but the rise is bounded only up to the rounding
\* of the float sum: the new floor is at most the float nearest to the
\* previous floor plus (1 - riseCoefficient) * (envelope - previous floor).
C35_FloorRisesAtMostByRoundedFraction ==
    [][ G_Sample =>
          /\ FLt(dsp'.env, dsp.noiseFloor) =>
                dsp'.noiseFloor = EnvOrMinimum(dsp')
          /\ ~FLt(dsp'.env, dsp.noiseFloor) =>
                /\ ~FLt(dsp'.noiseFloor, dsp.noiseFloor)
                /\ ~FGt(dsp'.noiseFloor,
                        FAdd(dsp.noiseFloor,
                             RiseBound(dsp'.env, dsp.noiseFloor)))
          /\ ~FGt(dsp'.noiseFloor, EnvOrMinimum(dsp')) ]_vars

\* A sample after which the envelope is above the floor: the floor rose
\* toward it and has not reached it.
C35_Witness ==
    /\ dsp.pc = "gate" /\ dsp.n > 1
    /\ FGt(dsp.env, dsp.noiseFloor)
    /\ FGt(dsp.noiseFloor, FloorStart)

\* Silent samples no longer change the state of the gate.
Settled == GateStep(dsp, FZero) = dsp

\* 2^-50, about 1e-15.
GainBound == [s |-> 1, m |-> Pow2(23), e |-> -73]

\* C36 (as stated): on input that is zero from some sample on, the smoothed
\* gain eventually falls below any positive bound and stays there; so where
\* silent samples no longer change the gate, the gain is below every
\* positive float, that is 0.
C36_SilenceDrivesGainBelowAnyBound ==
    (dsp.pc = "silent" /\ Settled) => dsp.gainSmooth.m = 0

\* C36 (amended): after one second of silent samples (outRate of them) the
\* smoothed gain is below 2^-50 and stays there.
C36_SilenceDrivesGainBelowBound ==
    (dsp.pc = "silent" /\ dsp.n >= outRate) =>
        /\ FLt(dsp.gainSmooth, GainBound)
        /\ dsp.gainSmooth.s = 1

\* One second of silence after sound: the gate has settled, at a gain that
\* is small and not 0.
C36_Witness ==
    /\ dsp.pc = "silent" /\ dsp.n = outRate
    /\ Settled
    /\ dsp.z1.m > 0
    /\ dsp.gainSmooth.m > 0
    /\ FLt(dsp.gainSmooth, GainBound)

\* C37: for every buffer, with any frame count N >= 0 and any input rate,
\* every index of mono the resampler reads lies in [0, N - 1].
C37_ReadsInsideInput ==
    Resampled => dsp.reads \subseteq 0..(dsp.frames - 1)

\* C37 holds for the buffers that hold at least one frame.
C37_ReadsInsideNonEmptyInput ==
    (Resampled /\ dsp.frames > 0) =>
        /\ dsp.reads \subseteq 0..(dsp.frames - 1)
        /\ dsp.reads # {}

\* C38: for every process name and every set of running processes,
\* resolveProcessId(name) yields the pid that startByProcessName(name, ...)
\* resolves, so it finds a running process whether or not that process has
\* an audio session.
C38_ResolveAgreesWithStart ==
    lookup.pc = "resolved" => lookup.resolved = lookup.pid

\* A running process without an audio session, resolved either way.
C38_Witness ==
    /\ lookup.pc = "resolved"
    /\ lookup.sessions = <<>>
    /\ lookup.pid # 0

\* The step is a call of route (restore).
RouteCall == router'.calls = Append(router.calls, "route")
RestoreCall == router'.calls = Append(router.calls, "restore")

\* C39: after any sequence of route and restore calls the record is empty or
\* the default output device of before the earliest route call not yet
\* undone; that is, only a successful route call that finds the record empty
\* writes it (the default of before the call), only a successful restore
\* empties it, and a route call that fails or that finds a record does not
\* replace the record.
C39_RecordHoldsEarliestDefault ==
    [][ /\ RouteCall =>
             router'.g_originalOutputDevice =
                 IF router'.ret /\ router.g_originalOutputDevice =
                                      kAudioDeviceUnknown
                 THEN router.defaultOutput
                 ELSE router.g_originalOutputDevice
        /\ RestoreCall =>
             router'.g_originalOutputDevice =
                 IF router'.ret THEN kAudioDeviceUnknown
                 ELSE router.g_originalOutputDevice ]_vars

\* Two route calls in a row, both successful: the record holds BlackHole.
C39_Witness ==
    /\ router.pc = "idle"
    /\ router.calls = <<"route", "route">>
    /\ router.rets = <<TRUE, TRUE>>
    /\ router.g_originalOutputDevice = BlackHole

\* C40: a restore call made when nothing is recorded returns failure and
\* leaves the default output device alone; a successful restore clears the
\* record, so a restore directly after it returns failure and changes
\* nothing.
C40_RestoreWithoutRecordFails ==
    [][ RestoreCall =>
          /\ router.g_originalOutputDevice = kAudioDeviceUnknown =>
                /\ ~router'.ret
                /\ router'.defaultOutput = router.defaultOutput
                /\ router'.g_originalOutputDevice = kAudioDeviceUnknown
          /\ router'.ret =>
                router'.g_originalOutputDevice = kAudioDeviceUnknown
          /\ ( /\ router.calls # <<>>
               /\ router.calls[Len(router.calls)] = "restore"
               /\ router.ret ) =>
                /\ ~router'.ret
                /\ router'.defaultOutput = router.defaultOutput
                /\ router'.g_originalOutputDevice =
                       router.g_originalOutputDevice ]_vars

\* A route, a restore that succeeded and a second restore, which the backend
\* would have accepted and which failed.
C40_Witness ==
    /\ router.pc = "idle"
    /\ router.calls = <<"route", "restore", "restore">>
    /\ router.rets = <<TRUE, TRUE, FALSE>>
    /\ router.setOk
    /\ router.g_originalOutputDevice = kAudioDeviceUnknown
    /\ router.defaultOutput # BlackHole
====
